---- MODULE Spec2Model ----
(***************************************************************************)
(* Document-processing bot (alcohol-code): market-price enrichment of the  *)
(* line items of an analysed document (utils/item_extended.py) and the     *)
(* processing pipeline around it (handlers/user/document.py).              *)
(*                                                                         *)
(* Optional values (Python None / a value) are sequences of length 0 / 1.  *)
(* Texts are sequences of one-character strings.                           *)
(***************************************************************************)
EXTENDS Integers, Sequences, FiniteSets, TLC

(***************************************************************************)
(* Bounds of the model                                                     *)
(***************************************************************************)
MaxItems == 3
MaxConcurrent == 2
MaxPipelineItems == 3

(***************************************************************************)
(* Values                                                                  *)
(***************************************************************************)
None == <<>>
Some(v) == <<v>>

\* enums/sheets.py: the two members of Sheet; NoSheet is any other value (None)
SheetMATERIALS == "materials"
SheetJOBS == "jobs"
NoSheet == "none"
\* FSMContext after state.clear(): no state, no data
NoState == "no_state"
NoData == [selected_project |-> <<>>, document_type |-> <<>>]  \* both None

Sheets == {SheetMATERIALS, SheetJOBS}

\* default unit of an item ("шт" in the source)
DefaultUnit == "pcs"

\* minimal length of a market analysis that is kept
MinAnalysisLen == 10

\* line items as the analysis client produces them: the unit validator of
\* the item model has already replaced a missing unit by the default
ItemCement == [name |-> "cement", quantity |-> 10, unit |-> Some("bag"),
               price |-> 250, total |-> 2500]
ItemBrick == [name |-> "brick", quantity |-> 1000, unit |-> Some(DefaultUnit),
              price |-> 5, total |-> 5000]
ItemValues == {ItemCement, ItemBrick}

ItemLists == UNION {[1..n -> ItemValues] : n \in 0..MaxItems}

\* the item lists of the analyses the pipeline is run on: one per length
PipelineItemLists ==
    {[i \in 1..n |-> IF i % 2 = 1 THEN ItemCement ELSE ItemBrick] : n \in 0..MaxPipelineItems}

LongText == <<"s", "o", "u", "r", "c", "e", " ", "s", "i", "t", "e">>
ShortText == <<" ", "n", "o", "n", "e", " ">>

\* what the market client can hand back for one lookup
MdFull == [average_price |-> Some(280), min_price |-> Some(240), analysis |-> LongText]
MdShort == [average_price |-> Some(5), min_price |-> None, analysis |-> ShortText]
MdNegative == [average_price |-> Some(0 - 50), min_price |-> Some(240), analysis |-> LongText]
MarketOutcomes == {[kind |-> "data", data |-> MdFull],
                   [kind |-> "data", data |-> MdShort],
                   [kind |-> "data", data |-> MdNegative],
                   [kind |-> "error", data |-> MdShort]}

(***************************************************************************)
(* Item models                                                             *)
(***************************************************************************)
IsSpace(c) == c = " "

RECURSIVE LStrip(_)
LStrip(s) == IF s # <<>> /\ IsSpace(Head(s)) THEN LStrip(Tail(s)) ELSE s

RECURSIVE RStrip(_)
RStrip(s) == IF s # <<>> /\ IsSpace(s[Len(s)]) THEN RStrip(SubSeq(s, 1, Len(s) - 1)) ELSE s

\* str.strip()
Strip(s) == RStrip(LStrip(s))

\* GoodsDocumentItem.handle_none_unit: a missing unit becomes the default
handle_none_unit(u) == IF u = None THEN Some(DefaultUnit) ELSE u

\* validate_market_prices: a negative price is rejected
validate_market_prices(v) == v = None \/ v[1] >= 0

\* validate_market_analysis: trimmed; empty or shorter than 10 -> None
validate_market_analysis(v) ==
    IF v = None THEN None
    ELSE IF Len(Strip(v[1])) = 0 THEN None
    ELSE IF Len(Strip(v[1])) < MinAnalysisLen THEN None
    ELSE Some(Strip(v[1]))

\* GoodsDocumentItemExtended(...) / JobsDocumentItemExtended(...): the
\* constructor either raises (ok = FALSE) or yields the new record
DocumentItemExtended(name, quantity, unit, price, total, avg, min, market_analysis) ==
    IF validate_market_prices(avg) /\ validate_market_prices(min)
    THEN [ok |-> TRUE,
          item |-> [name |-> name, quantity |-> quantity,
                    unit |-> handle_none_unit(unit),
                    price |-> price, total |-> total,
                    average_market_price |-> avg,
                    min_market_price |-> min,
                    market_analysis |-> validate_market_analysis(market_analysis)]]
    ELSE [ok |-> FALSE, item |-> [name |-> name]]

(***************************************************************************)
(* State                                                                   *)
(***************************************************************************)
VARIABLES
    items,            \* extend_items: argument items
    document_type,    \* extend_items: argument document_type
    max_concurrent,   \* extend_items: argument max_concurrent
    epc,              \* extend_items: where the invocation is
    sem_value,        \* semaphore._value
    sem_waiters,      \* semaphore._waiters (task indices, FIFO)
    task_pc,          \* per task: where process_single_item is
    task_outcome,     \* per task: what the market client answered (None before)
    task_result,      \* per task: the returned extended item (None before)
    completion_order, \* task indices in the order their lookups completed
    market_calls,     \* number of search_market_price calls started
    released_after,   \* set of outcome kinds after which a slot was released
    extended_items,   \* the list extend_items returns
    gemini_service,   \* document.py global: is the analysis client configured
    perplexity_service, \* document.py global: is the market client configured
    pointname_to_sheetsid, \* SheetsMappingService._data: project -> sheet id
    ppc,              \* _process_document_pipeline: where the invocation is
    is_image,         \* pipeline argument is_image
    selected_project, \* pipeline argument selected_project
    analysis,         \* the analysis the pipeline holds (None before)
    result,           \* the ProcessingResult the pipeline returned (None before)
    gemini_calls,     \* number of calls to the analysis client
    sheets_calls,     \* number of add_data_to_spreadsheet calls
    remote_opens,     \* number of remote spreadsheets opened (open_by_key)
    local_files,      \* local artifacts on disk (paths)
    persist_io,       \* what the remote and local I/O of the pipeline did (None before)
    written_by,       \* per local artifact path: the pipeline invocation that last wrote it
    invocation,       \* number of the current pipeline invocation
    fsm_state,        \* FSMContext: the state of the user's conversation
    fsm_data,         \* FSMContext: the data stored with it
    hpc,              \* process_document_photo / _file: where the handler is
    temp_file,        \* does the downloaded temporary file exist on disk
    msg_count,        \* number of updates received from the user
    last_event,       \* the last update handled: message, state before, handler, reply (None before)
    cancelled,        \* cancel_processing ran while the current handler was in flight
    presented,        \* the result of the pipeline of the current handler reached the user
    end_state,        \* the conversation state when the handler ended (None before)
    h_outcome,        \* how the handler ended (None before)
    first_call,       \* the arguments and the result of the first invocation (None before)
    removed_by,       \* pairs <<path, invocation>>: artifact unlinked while presenting
    other_state,      \* FSMContext of a second user: the state of their conversation
    other_data,       \* FSMContext of a second user: the data stored with it
    other_count,      \* number of updates received from the second user
    worksheets,       \* the target spreadsheet: worksheet title -> its rows
    sheet_call,       \* the last GoogleService call on it and what it did (None before)
    mapping_file,     \* pointname_sheetsid.json: is it complete JSON, and the mapping in it
    store_log,        \* the last mutation of SheetsMappingService and its outcome (None before)
    observed,         \* what the last reader of the mapping saw, and the file then (None before)
    adm_state,        \* per user: the state in their FSMContext (both routers use it)
    adm_point,        \* per user: point_name in the data of their FSMContext (None: not there)
    adm_doc,          \* per user: the document flow's data in their FSMContext
    adm_event,        \* the last update the dispatcher handled and what it did (None before)
    adm_count,        \* number of updates handled
    gem_pc,           \* GeminiService.analyze_*: where the call is
    gem_call,         \* the arguments, the faults and the outcome of that call (None before)
    temp_copy,        \* does temp_<image name> exist on disk
    parse_text,       \* PerplexityService._parse_response: the response text
    parse_result,     \* what _parse_response returned for it (None before)
    id_to_username,   \* UserService._data.id_to_username
    username_to_id,   \* UserService._data.username_to_id
    user_log,         \* the last UserService call (None before)
    user_file,        \* the content of user_map.json
    upload_data       \* history: the FSM data when the file in flight was sent in

enrichVars == <<items, document_type, max_concurrent, epc, sem_value, sem_waiters,
                task_pc, task_outcome, task_result, completion_order,
                market_calls, released_after, extended_items>>

pipelineVars == <<gemini_service, perplexity_service, pointname_to_sheetsid, ppc,
                  is_image, selected_project, analysis, result, gemini_calls,
                  sheets_calls, remote_opens, local_files, persist_io, written_by>>

sessionVars == <<invocation, fsm_state, fsm_data, hpc, temp_file, msg_count,
                 last_event, cancelled, presented, end_state, h_outcome,
                 first_call, removed_by>>

otherVars == <<other_state, other_data, other_count>>

sheetVars == <<worksheets, sheet_call>>

storeVars == <<mapping_file, store_log, observed>>

addPointVars == <<adm_state, adm_point, adm_doc, adm_event, adm_count>>

gemVars == <<gem_pc, gem_call, temp_copy>>

parseVars == <<parse_text, parse_result>>

userVars == <<id_to_username, username_to_id, user_log, user_file>>

serviceVars == <<gemVars, parseVars, userVars>>

historyVars == <<upload_data>>

extraVars == <<otherVars, sheetVars, storeVars, addPointVars, serviceVars, historyVars>>

vars == <<enrichVars, pipelineVars, sessionVars, extraVars>>

\* the second user has not written yet
InitOther ==
    /\ other_state = NoState
    /\ other_data = NoData
    /\ other_count = 0

\* a new spreadsheet: neither a materials nor a jobs worksheet yet
InitSheet ==
    /\ worksheets = <<>>
    /\ sheet_call = None

\* the file holds what the service loaded at start
InitStore ==
    /\ mapping_file = [complete |-> TRUE, data |-> pointname_to_sheetsid]
    /\ store_log = None
    /\ observed = None

\* the users the dispatcher hears from
Users == {"admin1", "guest"}

\* nobody is in a flow
InitAddPoint ==
    /\ adm_state = [u \in Users |-> NoState]
    /\ adm_point = [u \in Users |-> None]
    /\ adm_doc = [u \in Users |-> NoData]
    /\ adm_event = None
    /\ adm_count = 0

\* no analysis call yet, no transient copy
InitGem ==
    /\ gem_pc = "idle"
    /\ gem_call = None
    /\ temp_copy = FALSE

\* no market response parsed yet
InitParse ==
    /\ parse_text = <<>>
    /\ parse_result = None

\* an empty user mapping
InitUsers ==
    /\ id_to_username = {}
    /\ username_to_id = {}
    /\ user_log = None
    /\ user_file = [complete |-> TRUE, data |-> [id_to_username |-> {}, username_to_id |-> {}]]

InitService == InitGem /\ InitParse /\ InitUsers

\* no file has been sent in
InitHistory == upload_data = None

InitExtra == InitOther /\ InitSheet /\ InitStore /\ InitAddPoint /\ InitService /\ InitHistory

N == Len(items)
Tasks == 1..N

(***************************************************************************)
(* asyncio.Semaphore                                                       *)
(***************************************************************************)
never_locked(value, waiters) == FALSE

\* Semaphore.locked()
locked(value, waiters) == value = 0 \/ waiters # <<>>

\* index in waiters of the first waiter whose future is not done, 0 if none
FirstPending(waiters, pcs) ==
    IF \E k \in 1..Len(waiters) : pcs[waiters[k]] = "waiting"
    THEN CHOOSE k \in 1..Len(waiters) :
            /\ pcs[waiters[k]] = "waiting"
            /\ \A j \in 1..(k - 1) : pcs[waiters[j]] # "waiting"
    ELSE 0

\* Semaphore._wake_up_next(): hands one unit to the first pending waiter
_wake_up_next(value, waiters, pcs) ==
    LET k == FirstPending(waiters, pcs) IN
    IF k = 0 THEN [value |-> value, pcs |-> pcs]
    ELSE [value |-> value - 1, pcs |-> [pcs EXCEPT ![waiters[k]] = "woken"]]

\* Semaphore.release()
release(value, waiters, pcs) == _wake_up_next(value + 1, waiters, pcs)

leave_semaphore_leak(value, waiters, pcs, outcome) ==
    IF outcome.kind = "error" THEN [value |-> value, pcs |-> pcs]
    ELSE release(value, waiters, pcs)

\* end of the "async with semaphore" block of process_single_item: the
\* slot is given back whatever the lookup did
leave_semaphore(value, waiters, pcs, outcome) == release(value, waiters, pcs)

RemoveFirst(s, x) ==
    LET k == CHOOSE i \in 1..Len(s) : s[i] = x /\ \A j \in 1..(i - 1) : s[j] # x
    IN SubSeq(s, 1, k - 1) \o SubSeq(s, k + 1, Len(s))

(***************************************************************************)
(* extend_items                                                            *)
(***************************************************************************)
process_single_item_reraise(item, outcome) ==
    LET market_analysis ==
            IF outcome.kind = "data" /\ outcome.data.analysis # <<>>
            THEN Some(outcome.data.analysis) ELSE None
    IN IF outcome.kind = "data"
       THEN DocumentItemExtended(item.name, item.quantity, item.unit,
                item.price, item.total, outcome.data.average_price,
                outcome.data.min_price, market_analysis)
       ELSE [ok |-> FALSE, item |-> [name |-> item.name]]

\* process_single_item, after the lookup answered: the extended item, or
\* "raise" when even the record without market data cannot be built
process_single_item(item, outcome) ==
    LET market_analysis ==
            IF outcome.kind = "data" /\ outcome.data.analysis # <<>>
            THEN Some(outcome.data.analysis) ELSE None
        enriched == IF outcome.kind = "data"
                    THEN DocumentItemExtended(item.name, item.quantity, item.unit,
                             item.price, item.total, outcome.data.average_price,
                             outcome.data.min_price, market_analysis)
                    ELSE [ok |-> FALSE, item |-> [name |-> item.name]]
        plain == DocumentItemExtended(item.name, item.quantity, item.unit,
                     item.price, item.total, None, None, None)
    IN IF enriched.ok THEN enriched
       ELSE plain

gather_as_completed(results, order) ==
    [k \in 1..Len(results) |-> results[order[k]][1]]

\* asyncio.gather(*tasks): results in the order of the tasks
gather(results, order) == [i \in 1..Len(results) |-> results[i][1]]

IsEmptyList_never(l) == FALSE

\* "not items": the list is empty
IsEmptyList(l) == l = <<>>

IsSupportedSheet_any(dt) == TRUE

\* "document_type not in [Sheet.MATERIALS, Sheet.JOBS]" negated
IsSupportedSheet(dt) == dt \in Sheets

\* entry of extend_items: empty list, category check, semaphore and tasks
ExtendItemsEnter ==
    /\ epc = "called"
    /\ IF IsEmptyList(items)
       THEN /\ epc' = "returned"
            /\ extended_items' = <<>>
            /\ UNCHANGED <<sem_value, task_pc>>
       ELSE IF ~IsSupportedSheet(document_type)
       THEN /\ epc' = "raised"
            /\ UNCHANGED <<extended_items, sem_value, task_pc>>
       ELSE /\ epc' = "gather"
            /\ sem_value' = max_concurrent
            /\ task_pc' = [i \in Tasks |-> "new"]
            /\ UNCHANGED extended_items
    /\ UNCHANGED <<items, document_type, max_concurrent, sem_waiters, task_outcome,
                   task_result, completion_order, market_calls, released_after>>
    /\ UNCHANGED <<pipelineVars, sessionVars>>
    /\ UNCHANGED extraVars

\* first step of a task: tasks start in list order; acquire the semaphore
\* and issue the lookup, or queue up behind the semaphore
StartTask(i) ==
    /\ i \in Tasks
    /\ epc \in {"gather", "raised"}
    /\ task_pc[i] = "new"
    /\ \A j \in 1..(i - 1) : task_pc[j] # "new"
    /\ IF ~locked(sem_value, sem_waiters)
       THEN /\ sem_value' = sem_value - 1
            /\ task_pc' = [task_pc EXCEPT ![i] = "calling"]
            /\ market_calls' = market_calls + 1
            /\ UNCHANGED sem_waiters
       ELSE /\ sem_waiters' = Append(sem_waiters, i)
            /\ task_pc' = [task_pc EXCEPT ![i] = "waiting"]
            /\ UNCHANGED <<sem_value, market_calls>>
    /\ UNCHANGED <<items, document_type, max_concurrent, epc, task_outcome,
                   task_result, completion_order, released_after, extended_items>>
    /\ UNCHANGED <<pipelineVars, sessionVars>>
    /\ UNCHANGED extraVars

\* a woken waiter resumes inside acquire() and issues its lookup
ResumeTask(i) ==
    /\ i \in Tasks
    /\ epc \in {"gather", "raised"}
    /\ task_pc[i] = "woken"
    /\ LET waiters == RemoveFirst(sem_waiters, i)
           pcs == [task_pc EXCEPT ![i] = "calling"]
           woke == IF sem_value > 0 THEN _wake_up_next(sem_value, waiters, pcs)
                   ELSE [value |-> sem_value, pcs |-> pcs]
       IN /\ sem_waiters' = waiters
          /\ sem_value' = woke.value
          /\ task_pc' = woke.pcs
    /\ market_calls' = market_calls + 1
    /\ UNCHANGED <<items, document_type, max_concurrent, epc, task_outcome,
                   task_result, completion_order, released_after, extended_items>>
    /\ UNCHANGED <<pipelineVars, sessionVars>>
    /\ UNCHANGED extraVars

\* the lookup of task i answers or fails; the task builds its record,
\* leaves the "async with" block (release) and finishes
CompleteTask(i, outcome) ==
    /\ i \in Tasks
    /\ epc \in {"gather", "raised"}
    /\ task_pc[i] = "calling"
    /\ LET r == process_single_item(items[i], outcome)
           pcs == [task_pc EXCEPT ![i] = IF r.ok THEN "done" ELSE "raised"]
           rel == leave_semaphore(sem_value, sem_waiters, pcs, outcome)
       IN /\ task_result' = [task_result EXCEPT ![i] = IF r.ok THEN Some(r.item) ELSE None]
          /\ sem_value' = rel.value
          /\ task_pc' = rel.pcs
    /\ task_outcome' = [task_outcome EXCEPT ![i] = Some(outcome)]
    /\ completion_order' = Append(completion_order, i)
    /\ released_after' = released_after \cup {outcome.kind}
    /\ UNCHANGED <<items, document_type, max_concurrent, epc, sem_waiters,
                   market_calls, extended_items>>
    /\ UNCHANGED <<pipelineVars, sessionVars>>
    /\ UNCHANGED extraVars

\* gather: the first task that raised makes the await raise at once (the
\* other tasks go on); with all tasks done the list of results is returned
GatherDone ==
    /\ epc = "gather"
    /\ IF \E i \in Tasks : task_pc[i] = "raised"
       THEN /\ epc' = "raised"
            /\ UNCHANGED extended_items
       ELSE /\ \A i \in Tasks : task_pc[i] = "done"
            /\ epc' = "returned"
            /\ extended_items' = gather(task_result, completion_order)
    /\ UNCHANGED <<items, document_type, max_concurrent, sem_value, sem_waiters,
                   task_pc, task_outcome, task_result, completion_order,
                   market_calls, released_after>>
    /\ UNCHANGED <<pipelineVars, sessionVars>>
    /\ UNCHANGED extraVars

(***************************************************************************)
(* Specification of one extend_items invocation with arbitrary arguments   *)
(***************************************************************************)
InitEnrich ==
    /\ items \in ItemLists
    /\ document_type \in Sheets \cup {NoSheet}
    /\ max_concurrent \in 0..MaxConcurrent
    /\ epc = "called"
    /\ sem_value = 0
    /\ sem_waiters = <<>>
    /\ task_pc = [i \in Tasks |-> "none"]
    /\ task_outcome = [i \in Tasks |-> None]
    /\ task_result = [i \in Tasks |-> None]
    /\ completion_order = <<>>
    /\ market_calls = 0
    /\ released_after = {}
    /\ extended_items = <<>>
    /\ gemini_service = FALSE
    /\ perplexity_service = TRUE
    /\ pointname_to_sheetsid = <<>>
    /\ ppc = "none"
    /\ is_image = FALSE
    /\ selected_project = None
    /\ analysis = None
    /\ result = None
    /\ gemini_calls = 0
    /\ sheets_calls = 0
    /\ remote_opens = 0
    /\ local_files = {}
    /\ persist_io = None
    /\ written_by = <<>>
    /\ invocation = 1
    /\ fsm_state = NoState
    /\ fsm_data = NoData
    /\ hpc = "none"
    /\ temp_file = FALSE
    /\ msg_count = 0
    /\ last_event = None
    /\ cancelled = FALSE
    /\ presented = FALSE
    /\ end_state = None
    /\ h_outcome = None
    /\ first_call = None
    /\ removed_by = {}
    /\ InitExtra

NextEnrich ==
    \/ ExtendItemsEnter
    \/ \E i \in Tasks : StartTask(i)
    \/ \E i \in Tasks : ResumeTask(i)
    \/ \E i \in Tasks : \E outcome \in MarketOutcomes : CompleteTask(i, outcome)
    \/ GatherDone

SpecEnrich == InitEnrich /\ [][NextEnrich]_vars

\* the event loop runs every ready task, and every lookup in flight
\* eventually answers or fails
FairEnrich ==
    /\ WF_vars(ExtendItemsEnter)
    /\ WF_vars(GatherDone)
    /\ \A i \in 1..(MaxItems + MaxPipelineItems) :
          /\ WF_vars(StartTask(i))
          /\ WF_vars(ResumeTask(i))
          /\ WF_vars(\E outcome \in MarketOutcomes : CompleteTask(i, outcome))

SpecEnrichFair == SpecEnrich /\ FairEnrich

(***************************************************************************)
(* Properties of extend_items                                              *)
(***************************************************************************)
InFlight == {i \in Tasks : task_pc[i] = "calling"}
SlotHolders == {i \in Tasks : task_pc[i] \in {"calling", "woken"}}

\* the lookup failed: transport error, or an answer the record cannot be built from
FailedLookup(o) ==
    \/ o.kind = "error"
    \/ o.data.average_price # None /\ o.data.average_price[1] < 0
    \/ o.data.min_price # None /\ o.data.min_price[1] < 0

SameBaseFields(x, item) ==
    /\ x.name = item.name
    /\ x.quantity = item.quantity
    /\ x.unit = item.unit
    /\ x.price = item.price
    /\ x.total = item.total

Finished == epc \in {"returned", "raised"}

\* C1: for a list of N >= 1 items, a valid category and max_concurrent >= 1,
\* whatever the lookups answer and in whatever order they complete,
\* extend_items returns (it does not raise) exactly N extended items and the
\* i-th one carries name, quantity, unit, price and total of the i-th input.
C1_SameLengthSameOrder ==
    (Finished /\ N >= 1 /\ document_type \in Sheets /\ max_concurrent >= 1) =>
        /\ epc = "returned"
        /\ Len(extended_items) = N
        /\ \A i \in Tasks : SameBaseFields(extended_items[i], items[i])

C1_Witness ==
    /\ epc = "returned"
    /\ N >= 2
    /\ items[1] # items[2]
    /\ completion_order[1] = 2
    /\ \E i, j \in Tasks : /\ task_outcome[i][1].kind = "error"
                            /\ task_outcome[j][1].kind = "data"

\* C2: during an invocation with max_concurrent = k the number of lookups
\* started and not yet answered or failed is at most k in every state.
C2_AtMostKInFlight == Cardinality(InFlight) <= max_concurrent

C2_Witness ==
    /\ max_concurrent >= 1
    /\ Cardinality(InFlight) = max_concurrent
    /\ \E i \in Tasks : task_pc[i] = "waiting"
    /\ completion_order # <<>>

\* C3: a failed lookup (transport error, or an error while building the
\* enriched record) still yields that item's record, with the three market
\* fields absent; every record depends on its own item and its own answer
\* only; and extend_items does not fail because of it.
C3_FailureIsolation ==
    /\ \A i \in Tasks :
          (task_outcome[i] # None /\ FailedLookup(task_outcome[i][1])) =>
              /\ task_pc[i] = "done"
              /\ task_result[i] # None
              /\ SameBaseFields(task_result[i][1], items[i])
              /\ task_result[i][1].average_market_price = None
              /\ task_result[i][1].min_market_price = None
              /\ task_result[i][1].market_analysis = None
    /\ \A i \in Tasks :
          (task_outcome[i] # None /\ ~FailedLookup(task_outcome[i][1])) =>
              /\ task_result[i] # None
              /\ task_result[i][1].average_market_price =
                     task_outcome[i][1].data.average_price
              /\ task_result[i][1].min_market_price = task_outcome[i][1].data.min_price
    /\ epc = "returned" =>
          \A i \in Tasks : extended_items[i] = task_result[i][1]
    /\ epc = "raised" => document_type \notin Sheets

C3_Witness ==
    /\ epc = "returned"
    /\ \E i, j, k \in Tasks :
          /\ task_outcome[i][1].kind = "error"
          /\ task_outcome[j][1] = [kind |-> "data", data |-> MdNegative]
          /\ task_outcome[k][1] = [kind |-> "data", data |-> MdFull]
          /\ extended_items[k].average_market_price = Some(280)
          /\ completion_order[1] = i

\* C4: with max_concurrent >= 1 and every lookup eventually answering or
\* failing, every item's lookup is eventually started and the invocation
\* eventually returns; a slot is given back after a failed lookup as after
\* a successful one (the slots held and the free slots always add up to
\* max_concurrent).
C4_EveryLookupStartsAndReturns ==
    /\ (epc = "called" /\ max_concurrent >= 1 /\ document_type \in Sheets)
          ~> (epc = "returned" /\ market_calls = N /\ Len(extended_items) = N)
    /\ [](epc = "gather" => sem_value + Cardinality(SlotHolders) = max_concurrent)

C4_Witness ==
    /\ epc = "returned"
    /\ N > max_concurrent
    /\ "error" \in released_after
    /\ task_outcome[completion_order[1]][1].kind = "error"
    /\ market_calls = N

\* C5: extend_items called with an empty list returns an empty list and
\* makes no market-client call.
C5_EmptyList ==
    (N = 0 /\ epc # "called") =>
        /\ epc = "returned"
        /\ extended_items = <<>>
        /\ market_calls = 0

C5_Witness == N = 0 /\ epc = "returned" /\ document_type \notin Sheets

PipelineMaxConcurrent == 2

UserId == "u1"
Projects == {"p1", "p2"}
DocumentNumbers == {None, Some("n42")}

\* error messages of the pipeline
MsgGeminiUnavailable == "analysis service (Gemini) unavailable"
MsgNotAnalyzedImage == "could not analyze image"
MsgNotAnalyzedDocument == "could not analyze document"
MsgExcelFailed == "could not create Excel table"
MsgJsonFailed == "could not save JSON file"
MsgInternalError == "internal error"

\* ProcessingResult(...) with the defaults of the model for the other fields
ProcessingResult(success, a, error_message, google_sheet_url, local_excel_path, local_json_path, is_local_processing) ==
    [success |-> success, analysis |-> a, error_message |-> error_message,
     google_sheet_url |-> google_sheet_url, local_excel_path |-> local_excel_path,
     local_json_path |-> local_json_path, is_local_processing |-> is_local_processing]

FailureResult(msg) == ProcessingResult(FALSE, None, Some(msg), None, None, None, FALSE)

\* what analyze_invoice_image / analyze_document can return: nothing, or an
\* analysis validated for the category; for an unknown category always nothing
AnalysisOutcomes(dt) ==
    {None} \cup
    (IF dt \in Sheets
     THEN {Some([document_number |-> dn, items |-> l]) :
              dn \in DocumentNumbers, l \in PipelineItemLists}
     ELSE {})

\* SheetsMappingService.get_sheet_id
get_sheet_id(mapping, point_name) ==
    IF \E m \in mapping : m[1] = point_name
    THEN Some((CHOOSE m \in mapping : m[1] = point_name)[2])
    ELSE None

add_data_to_spreadsheet_no_id_check(spreadsheet_id, client_ok, remote_ok) ==
    IF ~client_ok THEN [url |-> None, opened |-> 0]
    ELSE IF spreadsheet_id # None /\ remote_ok
    THEN [url |-> Some(<<"url", spreadsheet_id[1]>>), opened |-> 1]
    ELSE [url |-> None, opened |-> 1]

\* GoogleService.add_data_to_spreadsheet: the URL or None, and whether the
\* remote spreadsheet was opened
add_data_to_spreadsheet(spreadsheet_id, client_ok, remote_ok) ==
    IF ~client_ok THEN [url |-> None, opened |-> 0]
    ELSE IF spreadsheet_id = None THEN [url |-> None, opened |-> 0]
    ELSE IF remote_ok THEN [url |-> Some(<<"url", spreadsheet_id[1]>>), opened |-> 1]
    ELSE [url |-> None, opened |-> 1]

\* file name of a local artifact (_create_local_excel / _save_local_json)
LocalPath(dir, a, project, dt) ==
    <<dir, project, a[1].document_number, IF dt \in Sheets THEN Some(dt) ELSE None, UserId>>

_process_with_local_storage_keep_excel(a, project, dt, excel_ok, json_ok) ==
    LET excel_path == LocalPath("excel_data", a, project, dt)
        json_path == LocalPath("json_data", a, project, dt)
    IN IF ~excel_ok
       THEN [result |-> FailureResult(MsgExcelFailed), files |-> {}]
       ELSE IF ~json_ok
       THEN [result |-> ProcessingResult(FALSE, None, Some(MsgJsonFailed), None,
                                         Some(excel_path), None, TRUE),
             files |-> {excel_path}]
       ELSE [result |-> ProcessingResult(TRUE, a, None, None, Some(excel_path),
                                         Some(json_path), TRUE),
             files |-> {excel_path, json_path}]

_process_with_local_storage_ignore_json(a, project, dt, excel_ok, json_ok) ==
    LET excel_path == LocalPath("excel_data", a, project, dt)
        json_path == LocalPath("json_data", a, project, dt)
    IN IF ~excel_ok
       THEN [result |-> FailureResult(MsgExcelFailed), files |-> {}]
       ELSE [result |-> ProcessingResult(TRUE, a, None, None, Some(excel_path),
                                         IF json_ok THEN Some(json_path) ELSE None, TRUE),
             files |-> IF json_ok THEN {excel_path, json_path} ELSE {excel_path}]

\* _process_with_local_storage: the result and the files it left on disk
_process_with_local_storage(a, project, dt, excel_ok, json_ok) ==
    LET excel_path == LocalPath("excel_data", a, project, dt)
        json_path == LocalPath("json_data", a, project, dt)
    IN IF ~excel_ok
       THEN [result |-> FailureResult(MsgExcelFailed), files |-> {}]
       ELSE IF ~json_ok
       THEN [result |-> FailureResult(MsgJsonFailed), files |-> {excel_path}]
       ELSE [result |-> ProcessingResult(TRUE, a, None, None, Some(excel_path),
                                         Some(json_path), TRUE),
             files |-> {excel_path, json_path}]

_process_with_google_services_no_fallback(a, project, dt, mapping, client_ok, remote_ok, excel_ok, json_ok) ==
    LET spreadsheet_id == IF project # None THEN get_sheet_id(mapping, project[1])
                          ELSE None
        remote == add_data_to_spreadsheet(spreadsheet_id, client_ok, remote_ok)
    IN IF remote.url = None
       THEN [result |-> FailureResult(MsgInternalError), files |-> {}, calls |-> 1,
             opened |-> remote.opened]
       ELSE [result |-> ProcessingResult(TRUE, a, None, remote.url, None, None, FALSE),
             files |-> {}, calls |-> 1, opened |-> remote.opened]

\* _process_with_google_services: remote append, local storage when it
\* gives no URL or when the step raises (document_type.value of None)
_process_with_google_services(a, project, dt, mapping, client_ok, remote_ok, excel_ok, json_ok) ==
    LET spreadsheet_id == IF project # None THEN get_sheet_id(mapping, project[1])
                          ELSE None
        local == _process_with_local_storage(a, project, dt, excel_ok, json_ok)
        remote == add_data_to_spreadsheet(spreadsheet_id, client_ok, remote_ok)
    IN IF dt \notin Sheets
       THEN [result |-> local.result, files |-> local.files, calls |-> 0, opened |-> 0]
       ELSE IF remote.url = None
       THEN [result |-> local.result, files |-> local.files, calls |-> 1,
             opened |-> remote.opened]
       ELSE [result |-> ProcessingResult(TRUE, a, None, remote.url, None, None, FALSE),
             files |-> {}, calls |-> 1, opened |-> remote.opened]

PipelineStart_unchecked ==
    /\ ppc = "start"
    /\ gemini_calls' = gemini_calls + 1
    /\ ppc' = "analyzing"
    /\ UNCHANGED <<sessionVars, written_by, gemini_service, perplexity_service,
                   pointname_to_sheetsid,
                   is_image, selected_project, analysis, result, sheets_calls,
                   remote_opens, local_files, persist_io>>
    /\ UNCHANGED enrichVars
    /\ UNCHANGED extraVars

\* step 1: without an analysis client fail at once, else call it
PipelineStart ==
    /\ ppc = "start"
    /\ IF ~gemini_service
       THEN /\ result' = Some(FailureResult(MsgGeminiUnavailable))
            /\ ppc' = "done"
            /\ UNCHANGED gemini_calls
       ELSE /\ gemini_calls' = gemini_calls + 1
            /\ ppc' = "analyzing"
            /\ UNCHANGED result
    /\ UNCHANGED <<sessionVars, written_by, gemini_service, perplexity_service,
                   pointname_to_sheetsid,
                   is_image, selected_project, analysis, sheets_calls,
                   remote_opens, local_files, persist_io>>
    /\ UNCHANGED enrichVars
    /\ UNCHANGED extraVars

PipelineAnalyzed_unchecked(a) ==
    /\ ppc = "analyzing"
    /\ a \in AnalysisOutcomes(document_type)
    /\ IF a = None
       THEN /\ result' = Some(FailureResult(MsgInternalError))
            /\ ppc' = "done"
            /\ UNCHANGED <<analysis, enrichVars>>
       ELSE /\ analysis' = a
            /\ UNCHANGED result
            /\ IF perplexity_service /\ a[1].items # <<>>
               THEN /\ ppc' = "enriching"
                    /\ epc' = "called"
                    /\ items' = a[1].items
                    /\ max_concurrent' = PipelineMaxConcurrent
                    /\ task_pc' = [i \in 1..Len(a[1].items) |-> "none"]
                    /\ task_outcome' = [i \in 1..Len(a[1].items) |-> None]
                    /\ task_result' = [i \in 1..Len(a[1].items) |-> None]
                    /\ UNCHANGED <<document_type, sem_value, sem_waiters,
                                   completion_order, market_calls, released_after,
                                   extended_items>>
               ELSE /\ ppc' = "persist"
                    /\ UNCHANGED enrichVars
    /\ UNCHANGED <<sessionVars, written_by, gemini_service, perplexity_service,
                   pointname_to_sheetsid,
                   is_image, selected_project, gemini_calls, sheets_calls,
                   remote_opens, local_files, persist_io>>
    /\ UNCHANGED extraVars

\* the analysis client answered: fail without an analysis, else enrich
\* (market client configured and at least one item) or go to persistence
PipelineAnalyzed(a) ==
    /\ ppc = "analyzing"
    /\ a \in AnalysisOutcomes(document_type)
    /\ IF a = None
       THEN /\ result' = Some(FailureResult(IF is_image THEN MsgNotAnalyzedImage
                                            ELSE MsgNotAnalyzedDocument))
            /\ ppc' = "done"
            /\ UNCHANGED <<analysis, enrichVars>>
       ELSE /\ analysis' = a
            /\ UNCHANGED result
            /\ IF perplexity_service /\ a[1].items # <<>>
               THEN /\ ppc' = "enriching"
                    /\ epc' = "called"
                    /\ items' = a[1].items
                    /\ max_concurrent' = PipelineMaxConcurrent
                    /\ task_pc' = [i \in 1..Len(a[1].items) |-> "none"]
                    /\ task_outcome' = [i \in 1..Len(a[1].items) |-> None]
                    /\ task_result' = [i \in 1..Len(a[1].items) |-> None]
                    /\ UNCHANGED <<document_type, sem_value, sem_waiters,
                                   completion_order, market_calls, released_after,
                                   extended_items>>
               ELSE /\ ppc' = "persist"
                    /\ UNCHANGED enrichVars
    /\ UNCHANGED <<sessionVars, written_by, gemini_service, perplexity_service,
                   pointname_to_sheetsid,
                   is_image, selected_project, gemini_calls, sheets_calls,
                   remote_opens, local_files, persist_io>>
    /\ UNCHANGED extraVars

\* an exception inside extend_items that is not a failed lookup (the
\* "except Exception ... raise" around gather): the await of the pipeline
\* raises, the tasks already created go on
ExtendItemsUnexpectedError ==
    /\ ppc = "enriching"
    /\ epc = "gather"
    /\ epc' = "raised"
    /\ UNCHANGED <<items, document_type, max_concurrent, sem_value, sem_waiters,
                   task_pc, task_outcome, task_result, completion_order,
                   market_calls, released_after, extended_items>>
    /\ UNCHANGED <<pipelineVars, sessionVars>>
    /\ UNCHANGED extraVars

PipelineEnriched_fail_on_raise ==
    /\ ppc = "enriching"
    /\ epc \in {"returned", "raised"}
    /\ IF epc = "returned"
       THEN /\ analysis' = Some([analysis[1] EXCEPT !.items = extended_items])
            /\ ppc' = "persist"
            /\ UNCHANGED result
       ELSE /\ result' = Some(FailureResult(MsgInternalError))
            /\ ppc' = "done"
            /\ UNCHANGED analysis
    /\ UNCHANGED <<sessionVars, written_by, gemini_service, perplexity_service,
                   pointname_to_sheetsid,
                   is_image, selected_project, gemini_calls, sheets_calls,
                   remote_opens, local_files, persist_io>>
    /\ UNCHANGED enrichVars
    /\ UNCHANGED extraVars

\* extend_items returned (the enriched items replace the original ones) or
\* raised (the original items stay)
PipelineEnriched ==
    /\ ppc = "enriching"
    /\ epc \in {"returned", "raised"}
    /\ analysis' = IF epc = "returned"
                   THEN Some([analysis[1] EXCEPT !.items = extended_items])
                   ELSE analysis
    /\ ppc' = "persist"
    /\ UNCHANGED <<sessionVars, written_by, gemini_service, perplexity_service,
                   pointname_to_sheetsid,
                   is_image, selected_project, result, gemini_calls, sheets_calls,
                   remote_opens, local_files, persist_io>>
    /\ UNCHANGED enrichVars
    /\ UNCHANGED extraVars

\* persistence: remote append with local fallback; the result is returned
PipelinePersist(client_ok, remote_ok, excel_ok, json_ok) ==
    /\ ppc = "persist"
    /\ LET r == _process_with_google_services(analysis, selected_project,
                    document_type, pointname_to_sheetsid, client_ok, remote_ok,
                    excel_ok, json_ok)
       IN /\ result' = Some(r.result)
          /\ sheets_calls' = sheets_calls + r.calls
          /\ remote_opens' = remote_opens + r.opened
          /\ local_files' = local_files \cup r.files
          /\ written_by' = [p \in DOMAIN written_by \cup r.files |->
                               IF p \in r.files THEN invocation ELSE written_by[p]]
    /\ persist_io' = Some([client_ok |-> client_ok, remote_ok |-> remote_ok,
                            excel_ok |-> excel_ok, json_ok |-> json_ok])
    /\ ppc' = "done"
    /\ UNCHANGED <<sessionVars, gemini_service, perplexity_service,
                   pointname_to_sheetsid,
                   is_image, selected_project, analysis, gemini_calls>>
    /\ UNCHANGED enrichVars
    /\ UNCHANGED extraVars

(***************************************************************************)
(* Specification of one pipeline invocation                                *)
(***************************************************************************)
InitPipeline ==
    /\ gemini_service \in BOOLEAN
    /\ perplexity_service \in BOOLEAN
    /\ pointname_to_sheetsid = {<<"p1", "sheet1">>}
    /\ ppc = "start"
    /\ is_image \in BOOLEAN
    /\ selected_project \in {None} \cup {Some(p) : p \in Projects}
    /\ document_type \in Sheets \cup {NoSheet}
    /\ analysis = None
    /\ result = None
    /\ gemini_calls = 0
    /\ sheets_calls = 0
    /\ remote_opens = 0
    /\ local_files = {}
    /\ persist_io = None
    /\ items = <<>>
    /\ max_concurrent = PipelineMaxConcurrent
    /\ epc = "idle"
    /\ sem_value = 0
    /\ sem_waiters = <<>>
    /\ task_pc = <<>>
    /\ task_outcome = <<>>
    /\ task_result = <<>>
    /\ completion_order = <<>>
    /\ market_calls = 0
    /\ released_after = {}
    /\ extended_items = <<>>
    /\ written_by = <<>>
    /\ invocation = 1
    /\ fsm_state = NoState
    /\ fsm_data = NoData
    /\ hpc = "none"
    /\ temp_file = FALSE
    /\ msg_count = 0
    /\ last_event = None
    /\ cancelled = FALSE
    /\ presented = FALSE
    /\ end_state = None
    /\ h_outcome = None
    /\ first_call = None
    /\ removed_by = {}
    /\ InitExtra

NextPipeline ==
    \/ PipelineStart
    \/ \E a \in AnalysisOutcomes(document_type) : PipelineAnalyzed(a)
    \/ ExtendItemsEnter
    \/ \E i \in Tasks : StartTask(i)
    \/ \E i \in Tasks : ResumeTask(i)
    \/ \E i \in Tasks : \E outcome \in MarketOutcomes : CompleteTask(i, outcome)
    \/ GatherDone
    \/ ExtendItemsUnexpectedError
    \/ PipelineEnriched
    \/ \E client_ok, remote_ok, excel_ok, json_ok \in BOOLEAN :
          PipelinePersist(client_ok, remote_ok, excel_ok, json_ok)

SpecPipeline == InitPipeline /\ [][NextPipeline]_vars

(***************************************************************************)
(* Properties of the processing pipeline                                   *)
(***************************************************************************)
Populated(x) == x # None

SheetResolves ==
    /\ selected_project # None
    /\ get_sheet_id(pointname_to_sheetsid, selected_project[1]) # None

\* C7: every ProcessingResult the pipeline returns: with success, exactly
\* one of (google_sheet_url) or (local_excel_path and local_json_path both)
\* is populated and is_local_processing is true exactly in the second case;
\* without success, the URL and both local paths are absent.
C7_ResultShape ==
    result # None =>
        LET r == result[1]
            remote == Populated(r.google_sheet_url)
            local == Populated(r.local_excel_path) /\ Populated(r.local_json_path)
        IN /\ r.success => /\ (remote /\ ~local) \/ (~remote /\ local)
                           /\ r.is_local_processing <=> local
           /\ ~r.success => /\ ~Populated(r.google_sheet_url)
                            /\ ~Populated(r.local_excel_path)
                            /\ ~Populated(r.local_json_path)

C7_Witness ==
    /\ result # None
    /\ result[1].success
    /\ Populated(result[1].google_sheet_url)
    /\ ~result[1].is_local_processing
    /\ epc = "returned"

\* C8: the analysis succeeded and the project resolves to a sheet id, but
\* the remote append gave no URL: the pipeline goes to local persistence
\* and, when both local artifacts are created, returns success with
\* is_local_processing, both local paths populated and no google_sheet_url.
C8_RemoteFailureFallsBackToLocal ==
    (/\ ppc = "done"
     /\ persist_io # None
     /\ SheetResolves
     /\ ~(persist_io[1].client_ok /\ persist_io[1].remote_ok)
     /\ persist_io[1].excel_ok
     /\ persist_io[1].json_ok) =>
        /\ result[1].success
        /\ result[1].is_local_processing
        /\ Populated(result[1].local_excel_path)
        /\ Populated(result[1].local_json_path)
        /\ ~Populated(result[1].google_sheet_url)
        /\ result[1].analysis = analysis
        /\ {result[1].local_excel_path[1], result[1].local_json_path[1]} \subseteq local_files

C8_Witness ==
    /\ ppc = "done"
    /\ persist_io # None
    /\ SheetResolves
    /\ persist_io[1].client_ok
    /\ ~persist_io[1].remote_ok
    /\ remote_opens >= 1
    /\ result[1].is_local_processing
    /\ Cardinality(local_files) = 2

\* C9: without an analysis capability the pipeline returns a failure whose
\* message says the analysis service is unavailable; it calls neither the
\* analysis client nor the market client nor the spreadsheet client and
\* writes no local artifact.
C9_NoAnalysisCapability ==
    (~gemini_service /\ ppc \notin {"start", "none"}) =>
        /\ ppc = "done"
        /\ result = Some(FailureResult(MsgGeminiUnavailable))
        /\ gemini_calls = 0
        /\ market_calls = 0
        /\ epc = "idle"
        /\ sheets_calls = 0
        /\ remote_opens = 0
        /\ local_files = {}

C9_Witness == ~gemini_service /\ ppc = "done" /\ result # None

\* C10: when the analysis client returns no analysis the pipeline returns
\* the could-not-analyze failure and performs no enrichment call, no remote
\* append and no local artifact write.
C10_NoAnalysis ==
    (ppc \notin {"start", "analyzing", "none"} /\ gemini_calls >= 1 /\ analysis = None) =>
        /\ ppc = "done"
        /\ result = Some(FailureResult(IF is_image THEN MsgNotAnalyzedImage
                                       ELSE MsgNotAnalyzedDocument))
        /\ market_calls = 0
        /\ epc = "idle"
        /\ sheets_calls = 0
        /\ remote_opens = 0
        /\ local_files = {}

C10_Witness ==
    /\ ppc = "done"
    /\ gemini_calls = 1
    /\ analysis = None
    /\ document_type \in Sheets
    /\ perplexity_service

\* C11: enrichment is configured and the analysis has at least one item;
\* when extend_items itself raises, the pipeline does not fail: it goes on
\* to the persistence steps with the analysis holding its original,
\* unenriched items in their original order, and the result it returns is
\* the result of persistence.
C11_OrchestratorErrorKeepsOriginalItems ==
    (perplexity_service /\ items # <<>> /\ epc = "raised" /\ ppc # "enriching") =>
        /\ ppc \in {"persist", "done"}
        /\ analysis # None
        /\ analysis[1].items = items
        /\ ppc = "done" =>
              /\ persist_io # None
              /\ sheets_calls = 1
              /\ result # None
              /\ result[1].error_message \in {None, Some(MsgExcelFailed), Some(MsgJsonFailed)}
              /\ result[1].success => result[1].analysis = analysis

C11_Witness ==
    /\ perplexity_service
    /\ Len(items) >= 2
    /\ epc = "raised"
    /\ ppc = "done"
    /\ result # None
    /\ result[1].success
    /\ result[1].analysis[1].items = items
    /\ \E i \in Tasks : task_pc[i] = "done"

\* C12: when the selected project does not resolve to a spreadsheet
\* identifier (no project, or a project the mapping does not hold), the
\* pipeline goes to local persistence and no remote spreadsheet is opened
\* (opening precedes creating a section and appending): the result has no
\* URL and is the result of local storage.
C12_UnresolvedProjectStaysLocal ==
    (ppc = "done" /\ persist_io # None /\ ~SheetResolves) =>
        /\ remote_opens = 0
        /\ ~Populated(result[1].google_sheet_url)
        /\ result[1].success <=> (persist_io[1].excel_ok /\ persist_io[1].json_ok)
        /\ result[1].success => result[1].is_local_processing
        /\ persist_io[1].excel_ok => local_files # {}

C12_Witness ==
    /\ ppc = "done"
    /\ persist_io # None
    /\ selected_project = Some("p2")
    /\ persist_io[1].client_ok
    /\ persist_io[1].remote_ok
    /\ sheets_calls = 1
    /\ remote_opens = 0
    /\ result[1].is_local_processing

\* the remote append gave no URL, so local storage produced the result
LocalFallback ==
    /\ ppc = "done"
    /\ persist_io # None
    /\ ~(SheetResolves /\ persist_io[1].client_ok /\ persist_io[1].remote_ok)

\* C13: in local fallback, when the Excel artifact or the JSON artifact
\* cannot be created the pipeline returns a failure with an error message
\* and with both local paths absent, also when the Excel artifact was
\* created and only the JSON artifact failed; when both are created it
\* returns success with is_local_processing.
C13_LocalFallbackOutcome ==
    LocalFallback =>
        IF persist_io[1].excel_ok /\ persist_io[1].json_ok
        THEN /\ result[1].success
             /\ result[1].is_local_processing
        ELSE /\ ~result[1].success
             /\ Populated(result[1].error_message)
             /\ ~Populated(result[1].local_excel_path)
             /\ ~Populated(result[1].local_json_path)

C13_Witness ==
    /\ LocalFallback
    /\ persist_io[1].excel_ok
    /\ ~persist_io[1].json_ok
    /\ Cardinality(local_files) = 1
    /\ ~result[1].success

(***************************************************************************)
(* Conversation of one user with the document router                       *)
(* (handlers/user/document.py, states/document.py)                         *)
(***************************************************************************)
\* updates the user can send; the routers included before document_router
\* (start, admin) take none of them
Messages == {"analyze", "project", "other_text", "goods", "jobs", "cancel",
             "back", "photo", "document"}

\* the project name the "project" message carries
ProjectText == "p1"

\* message.text is None for a photo or a file
HasText(m) == m \notin {"photo", "document"}

States == {NoState, "waiting_for_project_selection",
           "waiting_for_document_type_selection", "waiting_for_document",
           "processing"}

\* the message handlers of document_router in the order of registration
HandlerOrder ==
    <<"start_document_analysis", "process_project_selection",
      "process_document_type_selection", "process_document_photo",
      "process_document_file", "invalid_document_format",
      "handle_back_in_document_flow", "handle_processing_state_messages",
      "cancel_processing">>

\* the filters each handler is registered with
Filter(h, st, m) ==
    CASE h = "start_document_analysis" -> m = "analyze"
      [] h = "process_project_selection" -> st = "waiting_for_project_selection"
      [] h = "process_document_type_selection" -> st = "waiting_for_document_type_selection"
      [] h = "process_document_photo" -> st = "waiting_for_document" /\ m = "photo"
      [] h = "process_document_file" -> st = "waiting_for_document" /\ m = "document"
      [] h = "invalid_document_format" -> st = "waiting_for_document"
      [] h = "handle_back_in_document_flow" -> m = "back"
      [] h = "handle_processing_state_messages" -> st = "processing"
      [] h = "cancel_processing" -> m = "cancel"

\* the router calls the first registered handler whose filters pass
Dispatch(st, m) ==
    IF \E k \in 1..Len(HandlerOrder) : Filter(HandlerOrder[k], st, m)
    THEN HandlerOrder[CHOOSE k \in 1..Len(HandlerOrder) :
                         /\ Filter(HandlerOrder[k], st, m)
                         /\ \A j \in 1..(k - 1) : ~Filter(HandlerOrder[j], st, m)]
    ELSE "unhandled"

Cleared(reply) == [state |-> NoState, data |-> NoData, reply |-> reply]

start_document_analysis(st, data, mapping) ==
    IF mapping = {} THEN [state |-> st, data |-> data, reply |-> "no_projects"]
    ELSE [state |-> "waiting_for_project_selection", data |-> data,
          reply |-> "choose_project"]

process_project_selection_forgets(st, data, m, mapping) ==
    IF ~HasText(m) THEN Cleared("error")
    ELSE IF m = "cancel" THEN Cleared("cancelled")
    ELSE IF ~(m = "project" /\ get_sheet_id(mapping, ProjectText) # None)
    THEN [state |-> st, data |-> NoData, reply |-> "choose_project"]
    ELSE [state |-> "waiting_for_document_type_selection",
          data |-> [data EXCEPT !.selected_project = Some(ProjectText)],
          reply |-> "choose_type"]

process_project_selection(st, data, m, mapping) ==
    IF ~HasText(m) THEN Cleared("error")
    ELSE IF m = "cancel" THEN Cleared("cancelled")
    ELSE IF ~(m = "project" /\ get_sheet_id(mapping, ProjectText) # None)
    THEN [state |-> st, data |-> data, reply |-> "choose_project"]
    ELSE [state |-> "waiting_for_document_type_selection",
          data |-> [data EXCEPT !.selected_project = Some(ProjectText)],
          reply |-> "choose_type"]

process_document_type_selection(st, data, m) ==
    IF ~HasText(m) THEN Cleared("error")
    ELSE IF m = "cancel" THEN Cleared("cancelled")
    ELSE IF m = "goods"
    THEN [state |-> "waiting_for_document",
          data |-> [data EXCEPT !.document_type = Some(SheetMATERIALS)],
          reply |-> "send_document"]
    ELSE IF m = "jobs"
    THEN [state |-> "waiting_for_document",
          data |-> [data EXCEPT !.document_type = Some(SheetJOBS)],
          reply |-> "send_document"]
    ELSE [state |-> st, data |-> data, reply |-> "choose_type"]

invalid_document_format(st, data) ==
    [state |-> st, data |-> data, reply |-> "format_help"]

handle_back_in_document_flow(st, data) ==
    IF st = "waiting_for_document_type_selection"
    THEN [state |-> "waiting_for_project_selection", data |-> data,
          reply |-> "choose_project"]
    ELSE IF st = "waiting_for_document"
    THEN [state |-> "waiting_for_document_type_selection", data |-> data,
          reply |-> "choose_type"]
    ELSE Cleared("main_menu")

cancel_processing(st, data) == Cleared("cancelled")

handle_processing_state_messages(st, data, m) ==
    IF m = "cancel" THEN cancel_processing(st, data)
    ELSE [state |-> st, data |-> data, reply |-> "please_wait"]

\* what the handler the router picked does to the conversation
Handle(h, st, data, m, mapping) ==
    CASE h = "start_document_analysis" -> start_document_analysis(st, data, mapping)
      [] h = "process_project_selection" -> process_project_selection(st, data, m, mapping)
      [] h = "process_document_type_selection" -> process_document_type_selection(st, data, m)
      [] h = "invalid_document_format" -> invalid_document_format(st, data)
      [] h = "handle_back_in_document_flow" -> handle_back_in_document_flow(st, data)
      [] h = "handle_processing_state_messages" -> handle_processing_state_messages(st, data, m)
      [] h = "cancel_processing" -> cancel_processing(st, data)
      [] OTHER -> [state |-> st, data |-> data, reply |-> "none"]

\* bound on the number of updates of one run
MaxMessages == 8

InFlightHandler == hpc \in {"download", "pipeline", "present"}

\* the event loop is inside the synchronous part of the pipeline (analysis
\* client, spreadsheet client, local files): no other update is handled
EventLoopBusy == hpc = "pipeline" /\ ppc # "enriching"

\* an update arrives and the router runs the first matching handler to its
\* end; process_document_photo / process_document_file run to their first
\* await after set_state(processing) (one such handler in flight at a
\* time); a file may be an image (_is_image_file) or not
Receive(m) ==
    /\ msg_count < MaxMessages
    /\ ~EventLoopBusy
    /\ LET h == Dispatch(fsm_state, m)
           r == Handle(h, fsm_state, fsm_data, m, pointname_to_sheetsid)
           attachment == h \in {"process_document_photo", "process_document_file"}
       IN /\ last_event' = Some([msg |-> m, state |-> fsm_state, handler |-> h,
                                  reply |-> IF attachment THEN "analyzing" ELSE r.reply])
          /\ IF attachment
             THEN /\ ~InFlightHandler
                  /\ fsm_state' = "processing"
                  /\ hpc' = "download"
                  /\ is_image' \in (IF h = "process_document_photo" THEN {TRUE}
                                     ELSE BOOLEAN)
                  /\ temp_file' = FALSE
                  /\ cancelled' = FALSE
                  /\ presented' = FALSE
                  /\ end_state' = None
                  /\ h_outcome' = None
                  /\ upload_data' = Some(fsm_data)
                  /\ UNCHANGED fsm_data
             ELSE /\ fsm_state' = r.state
                  /\ fsm_data' = r.data
                  /\ cancelled' = (cancelled \/ (r.reply = "cancelled" /\ InFlightHandler))
                  /\ UNCHANGED <<hpc, is_image, temp_file, presented, end_state, h_outcome, upload_data>>
    /\ msg_count' = msg_count + 1
    /\ UNCHANGED <<invocation, first_call, removed_by>>
    /\ UNCHANGED <<gemini_service, perplexity_service, pointname_to_sheetsid, ppc,
                   selected_project, analysis, result, gemini_calls, sheets_calls,
                   remote_opens, local_files, persist_io, written_by>>
    /\ UNCHANGED enrichVars
    /\ UNCHANGED <<otherVars, sheetVars, storeVars, addPointVars, serviceVars>>

DownloadOutcomes == {"ok", "get_file_error", "download_error"}

\* the except branch of process_document_photo / _file: the error message
\* is sent, then state.clear(); a failed send leaves the handler at once
HandlerExcept(st, data, send_ok) ==
    IF send_ok THEN [state |-> NoState, data |-> NoData]
    ELSE [state |-> st, data |-> data]

\* get_file and download_file answer; then state.get_data() and the call
\* of _process_document_pipeline, or the except branch of the handler.
\* download_file opens the destination before it reads the stream: when it
\* raises, the file may be on disk (partial) or not
HandlerDownload(outcome, partial, send_ok) ==
    /\ hpc = "download"
    /\ IF outcome = "ok"
       THEN /\ temp_file' = TRUE
            /\ selected_project' = fsm_data.selected_project
            /\ document_type' = IF fsm_data.document_type = None THEN NoSheet
                                ELSE fsm_data.document_type[1]
            /\ invocation' = invocation + 1
            /\ ppc' = "start"
            /\ analysis' = None
            /\ result' = None
            /\ persist_io' = None
            /\ hpc' = "pipeline"
            /\ UNCHANGED <<fsm_state, fsm_data, end_state, h_outcome>>
       ELSE /\ temp_file' = (outcome = "download_error" /\ partial)
            /\ LET e == HandlerExcept(fsm_state, fsm_data, send_ok)
               IN /\ fsm_state' = e.state
                  /\ fsm_data' = e.data
                  /\ end_state' = Some(e.state)
            /\ h_outcome' = Some("exception")
            /\ hpc' = "done"
            /\ UNCHANGED <<selected_project, document_type, invocation, ppc,
                           analysis, result, persist_io>>
    /\ UNCHANGED <<msg_count, last_event, cancelled, presented, first_call, removed_by>>
    /\ UNCHANGED <<gemini_service, perplexity_service, pointname_to_sheetsid,
                   is_image, gemini_calls, sheets_calls, remote_opens, local_files,
                   written_by>>
    /\ UNCHANGED <<items, max_concurrent, epc, sem_value, sem_waiters, task_pc,
                   task_outcome, task_result, completion_order, market_calls,
                   released_after, extended_items>>
    /\ UNCHANGED extraVars

\* the pipeline returned: file_path.unlink(), processing_msg.delete()
HandlerAfterPipeline ==
    /\ hpc = "pipeline"
    /\ ppc = "done"
    /\ temp_file' = FALSE
    /\ first_call' = IF invocation = 1
                     THEN Some([selected_project |-> selected_project,
                                document_type |-> document_type,
                                result |-> result[1]])
                     ELSE first_call
    /\ hpc' = "present"
    /\ UNCHANGED <<invocation, fsm_state, fsm_data, msg_count, last_event,
                   cancelled, presented, end_state, h_outcome, removed_by>>
    /\ UNCHANGED <<pipelineVars, enrichVars>>
    /\ UNCHANGED extraVars

\* _send_error_result: the message, then state.clear(); an exception of
\* the send is only logged
_send_error_result(st, data, send_ok) ==
    IF send_ok THEN [state |-> NoState, data |-> NoData, presented |-> TRUE]
    ELSE [state |-> st, data |-> data, presented |-> FALSE]

\* _send_success_result: the summary, for a local result the Excel file
\* (unlinked once sent), the item details, then state.clear(); its except
\* branch sends a short notice and clears; when that send fails too the
\* exception reaches the except branch of the calling handler
_send_success_result(r, st, data, files, send_ok) ==
    LET excel == IF r.is_local_processing /\ r.local_excel_path # None
                    /\ r.local_excel_path[1] \in files
                 THEN {r.local_excel_path[1]} ELSE {}
    IN IF send_ok
       THEN [state |-> NoState, data |-> NoData, presented |-> TRUE,
             files |-> files \ excel, removed |-> excel]
       ELSE [state |-> HandlerExcept(st, data, send_ok).state,
             data |-> HandlerExcept(st, data, send_ok).data,
             presented |-> FALSE, files |-> files, removed |-> {}]

\* the result is presented and the handler ends (its locals, the analysis
\* and the result, are gone); send_ok: do the messages sent to this chat
\* go through
HandlerPresent(send_ok) ==
    /\ hpc = "present"
    /\ IF result[1].success
       THEN LET p == _send_success_result(result[1], fsm_state, fsm_data,
                                          local_files, send_ok)
            IN /\ fsm_state' = p.state
               /\ fsm_data' = p.data
               /\ presented' = p.presented
               /\ local_files' = p.files
               /\ removed_by' = removed_by \cup {<<f, invocation>> : f \in p.removed}
               /\ end_state' = Some(p.state)
               /\ h_outcome' = Some(IF send_ok THEN "success" ELSE "exception")
       ELSE LET p == _send_error_result(fsm_state, fsm_data, send_ok)
            IN /\ fsm_state' = p.state
               /\ fsm_data' = p.data
               /\ presented' = p.presented
               /\ end_state' = Some(p.state)
               /\ h_outcome' = Some("failure")
               /\ UNCHANGED <<local_files, removed_by>>
    /\ hpc' = "done"
    /\ ppc' = "none"
    /\ analysis' = None
    /\ result' = None
    /\ persist_io' = None
    /\ UNCHANGED <<invocation, temp_file, msg_count, last_event, cancelled,
                   first_call>>
    /\ UNCHANGED <<gemini_service, perplexity_service, pointname_to_sheetsid,
                   is_image, selected_project, gemini_calls,
                   sheets_calls, remote_opens, written_by>>
    /\ UNCHANGED enrichVars
    /\ UNCHANGED extraVars

\* nobody has written yet and no handler is running
InitConversation ==
    /\ ppc = "none"
    /\ is_image = FALSE
    /\ selected_project = None
    /\ document_type = NoSheet
    /\ analysis = None
    /\ result = None
    /\ gemini_calls = 0
    /\ sheets_calls = 0
    /\ remote_opens = 0
    /\ local_files = {}
    /\ persist_io = None
    /\ written_by = <<>>
    /\ items = <<>>
    /\ max_concurrent = PipelineMaxConcurrent
    /\ epc = "idle"
    /\ sem_value = 0
    /\ sem_waiters = <<>>
    /\ task_pc = <<>>
    /\ task_outcome = <<>>
    /\ task_result = <<>>
    /\ completion_order = <<>>
    /\ market_calls = 0
    /\ released_after = {}
    /\ extended_items = <<>>
    /\ invocation = 0
    /\ fsm_state = NoState
    /\ fsm_data = NoData
    /\ hpc = "none"
    /\ temp_file = FALSE
    /\ msg_count = 0
    /\ last_event = None
    /\ cancelled = FALSE
    /\ presented = FALSE
    /\ end_state = None
    /\ h_outcome = None
    /\ first_call = None
    /\ removed_by = {}

(***************************************************************************)
(* Specification of one user's conversation; the market client is not      *)
(* configured (no PERPLEXITY_API_KEY), so the pipeline does not enrich     *)
(***************************************************************************)
InitSession ==
    /\ gemini_service \in BOOLEAN
    /\ perplexity_service = FALSE
    /\ pointname_to_sheetsid = {<<"p1", "sheet1">>}
    /\ InitConversation
    /\ InitExtra

NextSession ==
    \/ \E m \in Messages : Receive(m)
    \/ \E outcome \in DownloadOutcomes : \E partial, send_ok \in BOOLEAN :
          HandlerDownload(outcome, partial, send_ok)
    \/ PipelineStart
    \/ \E a \in AnalysisOutcomes(document_type) : PipelineAnalyzed(a)
    \/ \E client_ok, remote_ok, excel_ok, json_ok \in BOOLEAN :
          PipelinePersist(client_ok, remote_ok, excel_ok, json_ok)
    \/ HandlerAfterPipeline
    \/ \E send_ok \in BOOLEAN : HandlerPresent(send_ok)

SpecSession == InitSession /\ [][NextSession]_vars

(***************************************************************************)
(* Properties of the conversation                                          *)
(***************************************************************************)
\* the local artifacts a result refers to
Artifacts(r) ==
    (IF r.local_excel_path # None THEN {r.local_excel_path[1]} ELSE {}) \cup
    (IF r.local_json_path # None THEN {r.local_json_path[1]} ELSE {})

\* the second invocation got the project, the category and (same file)
\* the analysis of the first
SameInputs ==
    /\ first_call # None
    /\ invocation = 2
    /\ ppc = "done"
    /\ selected_project = first_call[1].selected_project
    /\ document_type = first_call[1].document_type
    /\ result[1].analysis = first_call[1].result.analysis

\* C14: the pipeline is invoked twice with the same file, category, project
\* and user: the artifacts the first result refers to are neither
\* overwritten by the second invocation nor removed when its result is
\* presented.
C14_SecondInvocationKeepsFirstArtifacts ==
    SameInputs =>
        \A f \in Artifacts(first_call[1].result) :
            /\ written_by[f] = 1
            /\ <<f, 2>> \notin removed_by

\* C15: a cancel message arrived while the handler of an accepted
\* attachment was in flight: the result of that handler is discarded,
\* nothing of it is presented to the user.
C15_CancelDiscardsResult == cancelled => ~presented

\* the step handles an update m received in state st
Handled(st, m) ==
    /\ msg_count' = msg_count + 1
    /\ fsm_state = st
    /\ last_event'[1].msg = m

\* C16: in state processing every message other than cancel (text,
\* attachment, back, the /analyze command) is answered with the please-wait
\* notice and the state stays processing.
C16_ProcessingAnswersPleaseWait ==
    [][\A m \in Messages \ {"cancel"} :
          Handled("processing", m) =>
              /\ last_event'[1].reply = "please_wait"
              /\ fsm_state' = "processing"]_vars

\* C17: back in waiting_for_document_type_selection leads to
\* waiting_for_project_selection; back in waiting_for_document leads to
\* waiting_for_document_type_selection and keeps the selected project.
C17_BackGoesOneStepBack ==
    [][/\ Handled("waiting_for_document_type_selection", "back") =>
              fsm_state' = "waiting_for_project_selection"
       /\ Handled("waiting_for_document", "back") =>
              /\ fsm_state' = "waiting_for_document_type_selection"
              /\ fsm_data'.selected_project = fsm_data.selected_project]_vars

\* C18: a cancel message received in waiting_for_project_selection,
\* waiting_for_document_type_selection, waiting_for_document or processing
\* clears the conversation state.
C18_CancelClearsState ==
    [][\A st \in States \ {NoState} :
          Handled(st, "cancel") => fsm_state' = NoState /\ fsm_data' = NoData]_vars

\* C19: every handler that put the conversation into processing ends with
\* the conversation state cleared, also when the result or error message
\* cannot be sent, and without a further message of the user.
C19_HandlerEndsWithStateCleared ==
    hpc = "done" => end_state = Some(NoState)

\* C20: once the handling of an accepted attachment has ended (success,
\* failure, or an exception while downloading or processing) the temporary
\* file downloaded for it no longer exists.
C20_TempFileRemoved ==
    hpc = "done" => ~temp_file

\* C21: in waiting_for_project_selection a text equal to a known project
\* name stores that project and leads to waiting_for_document_type_selection;
\* a text that is neither a known project name nor the cancel text is
\* answered with the project prompt and leaves state and data unchanged;
\* the cancel text clears the conversation.
C21_ProjectSelection ==
    [][/\ Handled("waiting_for_project_selection", "project") =>
              /\ fsm_state' = "waiting_for_document_type_selection"
              /\ fsm_data' = [fsm_data EXCEPT !.selected_project = Some(ProjectText)]
       /\ \A m \in {x \in Messages : HasText(x)} \ {"project", "cancel"} :
              Handled("waiting_for_project_selection", m) =>
                  /\ last_event'[1].reply = "choose_project"
                  /\ fsm_state' = fsm_state
                  /\ fsm_data' = fsm_data
       /\ Handled("waiting_for_project_selection", "cancel") =>
              fsm_state' = NoState /\ fsm_data' = NoData]_vars

\* an unknown text arrived in waiting_for_project_selection while data of
\* an earlier round was stored, and nothing changed
C21_Witness ==
    /\ last_event # None
    /\ last_event[1].state = "waiting_for_project_selection"
    /\ last_event[1].msg = "other_text"
    /\ last_event[1].handler = "process_project_selection"
    /\ fsm_state = "waiting_for_project_selection"
    /\ fsm_data.selected_project # None

\* C22: in waiting_for_document a file or a photo leads to processing;
\* every message that is neither is answered with the format help and
\* leaves the state, the selected project and the category unchanged.
C22_AwaitingFile ==
    [][/\ \A m \in {"photo", "document"} :
              Handled("waiting_for_document", m) => fsm_state' = "processing"
       /\ \A m \in Messages \ {"photo", "document"} :
              Handled("waiting_for_document", m) =>
                  /\ last_event'[1].reply = "format_help"
                  /\ fsm_state' = fsm_state
                  /\ fsm_data' = fsm_data]_vars

(***************************************************************************)
(* Two users: the first, who has chosen project and category, submits a    *)
(* document (market client configured); the second writes text messages   *)
(***************************************************************************)
MaxOtherMessages == 2

\* an update of the second user arrives and the router runs the first
\* matching handler to its end; the dispatcher starts the handler as a task
\* of the one event loop, which runs it when the running task awaits
ReceiveOther(m) ==
    /\ other_count < MaxOtherMessages
    /\ HasText(m)
    /\ ~EventLoopBusy
    /\ LET h == Dispatch(other_state, m)
           r == Handle(h, other_state, other_data, m, pointname_to_sheetsid)
       IN /\ other_state' = r.state
          /\ other_data' = r.data
    /\ other_count' = other_count + 1
    /\ UNCHANGED <<enrichVars, pipelineVars, sessionVars, sheetVars, storeVars, addPointVars, serviceVars, historyVars>>

SubmissionMessages == {"photo", "document"}

\* the state after /analyze, the project name and the category text, with
\* one more update of the first user to come
InitOthers ==
    /\ gemini_service = TRUE
    /\ perplexity_service = TRUE
    /\ pointname_to_sheetsid = {<<"p1", "sheet1">>}
    /\ ppc = "none"
    /\ is_image = FALSE
    /\ selected_project = None
    /\ document_type = NoSheet
    /\ analysis = None
    /\ result = None
    /\ gemini_calls = 0
    /\ sheets_calls = 0
    /\ remote_opens = 0
    /\ local_files = {}
    /\ persist_io = None
    /\ written_by = <<>>
    /\ items = <<>>
    /\ max_concurrent = PipelineMaxConcurrent
    /\ epc = "idle"
    /\ sem_value = 0
    /\ sem_waiters = <<>>
    /\ task_pc = <<>>
    /\ task_outcome = <<>>
    /\ task_result = <<>>
    /\ completion_order = <<>>
    /\ market_calls = 0
    /\ released_after = {}
    /\ extended_items = <<>>
    /\ invocation = 0
    /\ fsm_state = "waiting_for_document"
    /\ fsm_data = [selected_project |-> Some(ProjectText), document_type |-> Some(SheetMATERIALS)]
    /\ hpc = "none"
    /\ temp_file = FALSE
    /\ msg_count = MaxMessages - 1
    /\ last_event = Some([msg |-> "goods", state |-> "waiting_for_document_type_selection",
                           handler |-> "process_document_type_selection",
                           reply |-> "send_document"])
    /\ cancelled = FALSE
    /\ presented = FALSE
    /\ end_state = None
    /\ h_outcome = None
    /\ first_call = None
    /\ removed_by = {}
    /\ InitExtra

NextOthers ==
    \/ \E m \in SubmissionMessages : Receive(m)
    \/ \E m \in Messages : ReceiveOther(m)
    \/ \E outcome \in DownloadOutcomes : \E partial, send_ok \in BOOLEAN :
          HandlerDownload(outcome, partial, send_ok)
    \/ PipelineStart
    \/ \E a \in AnalysisOutcomes(document_type) : PipelineAnalyzed(a)
    \/ ExtendItemsEnter
    \/ \E i \in Tasks : StartTask(i)
    \/ \E i \in Tasks : ResumeTask(i)
    \/ \E i \in Tasks : \E outcome \in MarketOutcomes : CompleteTask(i, outcome)
    \/ GatherDone
    \/ PipelineEnriched
    \/ \E client_ok, remote_ok, excel_ok, json_ok \in BOOLEAN :
          PipelinePersist(client_ok, remote_ok, excel_ok, json_ok)
    \/ HandlerAfterPipeline
    \/ \E send_ok \in BOOLEAN : HandlerPresent(send_ok)

SpecOthers == InitOthers /\ [][NextOthers]_vars

PipelineSteps == {"analyzing", "enriching", "persist"}

\* C23: while the first user's handler is inside the pipeline, in each of
\* its steps (document analysis, enrichment, remote append and local write),
\* a message of the second user can be handled and can change the state of
\* their conversation.
C23_OtherUsersHandledDuringPipeline ==
    (hpc = "pipeline" /\ ppc \in PipelineSteps /\ other_count < MaxOtherMessages) =>
        ENABLED (\E m \in Messages : ReceiveOther(m) /\ other_state' # other_state)

(***************************************************************************)
(* GoogleService on one target spreadsheet                                 *)
(***************************************************************************)
MaxRows == 5

\* the header set add_data_to_spreadsheet writes (11 columns)
HeaderRow == <<"No", "Date", "Name", "Unit", "Qty", "Price", "Sum", "Supplier",
               "Notes", "Entered", "TelegramID / First Name">>

\* str.lower() on the unit texts
Lower(u) == CASE u = "BAG" -> "bag" [] u = "PCS" -> "pcs" [] OTHER -> u

\* the row built for one item (numbers and the time stamp as cell texts)
ItemRow(a, item) ==
    <<IF a.document_number = None THEN "" ELSE a.document_number[1], "date",
      item.name, Lower(item.unit[1]), "quantity", "price", "total", "supplier",
      "", "now", "user">>

\* a row without its trailing empty cells
RECURSIVE TrimRow(_)
TrimRow(row) ==
    IF row # <<>> /\ row[Len(row)] = "" THEN TrimRow(SubSeq(row, 1, Len(row) - 1))
    ELSE row

\* rows without the trailing empty rows
RECURSIVE TrimRows(_)
TrimRows(rows) ==
    IF rows # <<>> /\ TrimRow(rows[Len(rows)]) = <<>>
    THEN TrimRows(SubSeq(rows, 1, Len(rows) - 1))
    ELSE rows

\* Worksheet.row_values(1): the first row without trailing empty cells
row_values_1(rows) == IF rows = <<>> THEN <<>> ELSE TrimRow(rows[1])

\* Worksheet.append_row / append_rows: below the last row with content
append_rows(rows, new_rows) == TrimRows(rows) \o new_rows

\* Worksheet.update([[v]], "A1")
update_A1(rows, v) ==
    IF rows = <<>> THEN <<<<v>>>>
    ELSE [rows EXCEPT ![1] = IF @ = <<>> THEN <<v>> ELSE [@ EXCEPT ![1] = v]]

AppendFaults == {"none", "no_client", "no_sheet_id", "spreadsheet_not_found",
                 "open_error", "add_worksheet_error", "row_values_error",
                 "append_header_error", "append_rows_error"}

\* the except clauses of add_data_to_spreadsheet that swallow nothing but
\* SpreadsheetNotFound
Caught_only_not_found(exc) == exc = "SpreadsheetNotFound"

\* except gspread.exceptions.SpreadsheetNotFound / except Exception
Caught(exc) == exc = "SpreadsheetNotFound" \/ exc \in {"APIError", "Exception"}

\* the try block of add_data_to_spreadsheet: the worksheets after it, the
\* URL it returns and the exception it raises ("none": it returns)
add_data_try(ws, a, sheet_name, fault) ==
    LET missing == sheet_name \notin DOMAIN ws
        ws1 == IF missing
               THEN [t \in DOMAIN ws \cup {sheet_name} |->
                        IF t = sheet_name THEN <<>> ELSE ws[t]]
               ELSE ws
        existing_headers == row_values_1(ws1[sheet_name])
        ws2 == IF existing_headers = <<>>
               THEN [ws1 EXCEPT ![sheet_name] = append_rows(@, <<HeaderRow>>)]
               ELSE ws1
        rows_to_add == [i \in 1..Len(a.items) |-> ItemRow(a, a.items[i])]
        ws3 == IF rows_to_add # <<>>
               THEN [ws2 EXCEPT ![sheet_name] = append_rows(@, rows_to_add)]
               ELSE ws2
    IN IF fault \in {"no_client", "no_sheet_id"}
       THEN [ws |-> ws, url |-> None, exc |-> "none"]
       ELSE IF fault = "spreadsheet_not_found"
       THEN [ws |-> ws, url |-> None, exc |-> "SpreadsheetNotFound"]
       ELSE IF fault = "open_error"
       THEN [ws |-> ws, url |-> None, exc |-> "APIError"]
       ELSE IF missing /\ fault = "add_worksheet_error"
       THEN [ws |-> ws, url |-> None, exc |-> "APIError"]
       ELSE IF fault = "row_values_error"
       THEN [ws |-> ws1, url |-> None, exc |-> "APIError"]
       ELSE IF existing_headers = <<>> /\ fault = "append_header_error"
       THEN [ws |-> ws1, url |-> None, exc |-> "Exception"]
       ELSE IF rows_to_add # <<>> /\ fault = "append_rows_error"
       THEN [ws |-> ws2, url |-> None, exc |-> "APIError"]
       ELSE [ws |-> ws3, url |-> Some("url"), exc |-> "none"]

\* add_data_to_spreadsheet(analysis, ..., sheet_name) on the target
\* spreadsheet; fault says which remote call fails
AddData(a, sheet_name, fault) ==
    /\ (IF sheet_name \in DOMAIN worksheets THEN Len(worksheets[sheet_name]) ELSE 0)
           + 1 + Len(a.items) <= MaxRows
    /\ LET r == add_data_try(worksheets, a, sheet_name, fault)
       IN /\ worksheets' = r.ws
          /\ sheet_call' = Some([op |-> "add_data", sheet |-> sheet_name,
                                 fault |-> fault,
                                 before |-> worksheets,
                                 rows |-> [i \in 1..Len(a.items) |-> ItemRow(a, a.items[i])],
                                 returned |-> IF r.exc = "none" THEN r.url ELSE None,
                                 raised |-> r.exc # "none" /\ ~Caught(r.exc),
                                 writes |-> 0])
    /\ UNCHANGED <<enrichVars, pipelineVars, sessionVars, otherVars, storeVars, addPointVars, serviceVars, historyVars>>

ProbeFaults == {"none", "no_client", "open_error", "update1_error", "update2_error"}

\* a probe that writes before it looks for the jobs worksheet
check_sheet_write_permissions_write_first(ws, fault) ==
    IF fault = "no_client"
    THEN [ws |-> ws, returned |-> FALSE, exc |-> "AttributeError", writes |-> 0]
    ELSE IF fault = "open_error"
    THEN [ws |-> ws, returned |-> FALSE, exc |-> "APIError", writes |-> 0]
    ELSE IF SheetMATERIALS \notin DOMAIN ws
    THEN [ws |-> ws, returned |-> FALSE, exc |-> "none", writes |-> 0]
    ELSE IF SheetJOBS \notin DOMAIN ws
    THEN [ws |-> [ws EXCEPT ![SheetMATERIALS] = update_A1(@, "test")],
          returned |-> FALSE, exc |-> "none", writes |-> 1]
    ELSE [ws |-> [ws EXCEPT ![SheetMATERIALS] = update_A1(update_A1(@, "test"), "")],
          returned |-> TRUE, exc |-> "none", writes |-> 2]

\* the try block of check_sheet_write_permissions: the worksheets after it,
\* what it returns, the exception it raises ("none": it returns) and the
\* number of cell writes it made; a missing client makes open_by_key an
\* attribute access on None
check_sheet_write_permissions(ws, fault) ==
    IF fault = "no_client"
    THEN [ws |-> ws, returned |-> FALSE, exc |-> "AttributeError", writes |-> 0]
    ELSE IF fault = "open_error"
    THEN [ws |-> ws, returned |-> FALSE, exc |-> "APIError", writes |-> 0]
    ELSE IF SheetMATERIALS \notin DOMAIN ws
    THEN [ws |-> ws, returned |-> FALSE, exc |-> "none", writes |-> 0]
    ELSE IF SheetJOBS \notin DOMAIN ws
    THEN [ws |-> ws, returned |-> FALSE, exc |-> "none", writes |-> 0]
    ELSE IF fault = "update1_error"
    THEN [ws |-> ws, returned |-> FALSE, exc |-> "APIError", writes |-> 0]
    ELSE IF fault = "update2_error"
    THEN [ws |-> [ws EXCEPT ![SheetMATERIALS] = update_A1(@, "test")],
          returned |-> FALSE, exc |-> "APIError", writes |-> 1]
    ELSE [ws |-> [ws EXCEPT ![SheetMATERIALS] = update_A1(update_A1(@, "test"), "")],
          returned |-> TRUE, exc |-> "none", writes |-> 2]

\* except HttpError / except Exception of check_sheet_write_permissions
ProbeCaught(exc) == exc \in {"HttpError", "AttributeError", "APIError", "Exception"}

\* check_sheet_write_permissions(sheet_id) on the target spreadsheet
Probe(fault) ==
    /\ LET r == check_sheet_write_permissions(worksheets, fault)
       IN /\ worksheets' = r.ws
          /\ sheet_call' = Some([op |-> "probe", sheet |-> SheetMATERIALS,
                                 fault |-> fault,
                                 before |-> worksheets,
                                 rows |-> <<>>,
                                 returned |-> IF r.returned THEN Some("true") ELSE None,
                                 raised |-> r.exc # "none" /\ ~ProbeCaught(r.exc),
                                 writes |-> r.writes])
    /\ UNCHANGED <<enrichVars, pipelineVars, sessionVars, otherVars, storeVars, addPointVars, serviceVars, historyVars>>

SheetAnalyses == {[document_number |-> Some("n42"), items |-> l] : l \in PipelineItemLists}

InitSheets ==
    /\ gemini_service = TRUE
    /\ perplexity_service = FALSE
    /\ pointname_to_sheetsid = {<<"p1", "sheet1">>}
    /\ InitConversation
    /\ InitExtra

NextSheets ==
    \/ \E a \in SheetAnalyses : \E sheet_name \in Sheets : \E fault \in AppendFaults :
          AddData(a, sheet_name, fault)
    \/ \E fault \in ProbeFaults : Probe(fault)

SpecSheets == InitSheets /\ [][NextSheets]_vars

\* the rows of a worksheet title in a spreadsheet (none when it is missing)
RowsOf(ws, title) == IF title \in DOMAIN ws THEN TrimRows(ws[title]) ELSE <<>>

AddDataSucceeded ==
    /\ sheet_call # None
    /\ sheet_call[1].op = "add_data"
    /\ sheet_call[1].returned # None

\* C24: after a successful append of an analysis with N items to a section
\* the first row of the section is the fixed header set, the rows present
\* before the call are still there and the last N rows are the rows of the
\* items in the order of the analysis; nothing else was added but the header
\* of a section that was empty.
C24_HeaderFirstAndRowsInOrder ==
    AddDataSucceeded =>
        LET c == sheet_call[1]
            before == RowsOf(c.before, c.sheet)
            after == RowsOf(worksheets, c.sheet)
            n == Len(c.rows)
        IN /\ after # <<>>
           /\ after[1] = HeaderRow
           /\ Len(after) = Len(before) + n + (IF before = <<>> THEN 1 ELSE 0)
           /\ SubSeq(after, 1, Len(before)) = before
           /\ SubSeq(after, Len(after) - n + 1, Len(after)) = c.rows

\* did the remote call that fault names take place and fail
FaultApplies(c) ==
    \/ c.fault \in {"no_client", "no_sheet_id", "spreadsheet_not_found",
                    "open_error", "row_values_error"}
    \/ c.fault = "add_worksheet_error" /\ c.sheet \notin DOMAIN c.before
    \/ c.fault = "append_header_error" /\ RowsOf(c.before, c.sheet) = <<>>
    \/ c.fault = "append_rows_error" /\ c.rows # <<>>

\* C25: add_data_to_spreadsheet never raises to its caller, and when the
\* client or the sheet id is missing or a remote call fails (spreadsheet not
\* found, permission or transport error) it returns no URL.
C25_AddDataNeverRaises ==
    (sheet_call # None /\ sheet_call[1].op = "add_data") =>
        /\ ~sheet_call[1].raised
        /\ FaultApplies(sheet_call[1]) => sheet_call[1].returned = None

\* appending the item rows failed after the header had been written
C25_Witness ==
    /\ sheet_call # None
    /\ sheet_call[1].op = "add_data"
    /\ sheet_call[1].fault = "append_rows_error"
    /\ sheet_call[1].rows # <<>>
    /\ sheet_call[1].returned = None
    /\ RowsOf(sheet_call[1].before, sheet_call[1].sheet) = <<>>
    /\ RowsOf(worksheets, sheet_call[1].sheet) = <<HeaderRow>>

\* the value of cell A1 (the empty text when the cell is empty)
CellA1(rows) == IF rows = <<>> THEN "" ELSE rows[1][1]

\* C26: check_sheet_write_permissions leaves the spreadsheet as it was:
\* after it returned, cell A1 of the materials worksheet holds the value it
\* held before and a header row present before is still the header row.
C26_ProbeLeavesContents ==
    (sheet_call # None /\ sheet_call[1].op = "probe") =>
        LET before == RowsOf(sheet_call[1].before, SheetMATERIALS)
            after == RowsOf(worksheets, SheetMATERIALS)
        IN /\ CellA1(after) = CellA1(before)
           /\ (before # <<>> /\ before[1] = HeaderRow) =>
                  (after # <<>> /\ after[1] = HeaderRow)

\* C27: when the materials or the jobs worksheet is missing,
\* check_sheet_write_permissions returns false, raises nothing and writes
\* no cell.
C27_ProbeMissingSection ==
    (/\ sheet_call # None
     /\ sheet_call[1].op = "probe"
     /\ ~(Sheets \subseteq DOMAIN sheet_call[1].before)) =>
        /\ sheet_call[1].returned = None
        /\ ~sheet_call[1].raised
        /\ sheet_call[1].writes = 0
        /\ worksheets = sheet_call[1].before

\* the probe found a materials worksheet with rows and no jobs worksheet
C27_Witness ==
    /\ sheet_call # None
    /\ sheet_call[1].op = "probe"
    /\ sheet_call[1].fault = "none"
    /\ DOMAIN sheet_call[1].before = {SheetMATERIALS}
    /\ Len(RowsOf(worksheets, SheetMATERIALS)) >= 2
    /\ sheet_call[1].returned = None

(***************************************************************************)
(* SheetsMappingService: the mapping in memory (pointname_to_sheetsid) and *)
(* the JSON file behind it; its methods run to their end without awaiting  *)
(***************************************************************************)
PointNames == {"p1", "p2"}
SheetIds == {"sheet1", "sheet2"}

\* how _save_data ends: written, open(..., "w") failed, or json.dump failed
\* after the file was truncated
SaveOutcomes == {"ok", "open_error", "dump_error"}

\* dict assignment mapping[point_name] = sheet_id
DictSet(mapping, point_name, sheet_id) ==
    {pr \in mapping : pr[1] # point_name} \cup {<<point_name, sheet_id>>}

\* del mapping[point_name]
DictDel(mapping, point_name) == {pr \in mapping : pr[1] # point_name}

\* _save_data: the file after it; every error is logged and swallowed
_save_data(file, data, save) ==
    IF save = "ok" THEN [complete |-> TRUE, data |-> data]
    ELSE IF save = "open_error" THEN file
    ELSE [complete |-> FALSE, data |-> {}]

\* _load_data: the mapping it returns and the file after it (a file that is
\* not valid JSON gives the empty mapping and is left as it is)
_load_data(file) ==
    IF file.complete THEN [data |-> file.data, file |-> file]
    ELSE [data |-> {}, file |-> file]

\* add_or_update_mapping that leaves the mapping in memory alone
add_or_update_mapping_file_only(mapping, file, point_name, sheet_id, save) ==
    [mapping |-> mapping,
     file |-> _save_data(file, DictSet(mapping, point_name, sheet_id), save)]

\* add_or_update_mapping: memory first, then the file
add_or_update_mapping(mapping, file, point_name, sheet_id, save) ==
    LET data == DictSet(mapping, point_name, sheet_id)
    IN [mapping |-> data, file |-> _save_data(file, data, save)]

\* remove_mapping: True when the name was known, whatever the save did
remove_mapping(mapping, file, point_name, save) ==
    IF get_sheet_id(mapping, point_name) # None
    THEN LET data == DictDel(mapping, point_name)
         IN [mapping |-> data, file |-> _save_data(file, data, save), returned |-> TRUE]
    ELSE [mapping |-> mapping, file |-> file, returned |-> FALSE]

StoreFrame ==
    /\ UNCHANGED <<gemini_service, perplexity_service, ppc, is_image,
                   selected_project, analysis, result, gemini_calls, sheets_calls,
                   remote_opens, local_files, persist_io, written_by>>
    /\ UNCHANGED <<enrichVars, sessionVars, otherVars, sheetVars, addPointVars, serviceVars, historyVars>>

StoreAdd(point_name, sheet_id, save) ==
    /\ LET r == add_or_update_mapping(pointname_to_sheetsid, mapping_file,
                                      point_name, sheet_id, save)
       IN /\ pointname_to_sheetsid' = r.mapping
          /\ mapping_file' = r.file
    /\ store_log' = Some([op |-> "add", point_name |-> point_name,
                          sheet_id |-> sheet_id, save |-> save,
                          before |-> pointname_to_sheetsid])
    /\ UNCHANGED observed
    /\ StoreFrame

StoreRemove(point_name, save) ==
    /\ LET r == remove_mapping(pointname_to_sheetsid, mapping_file, point_name, save)
       IN /\ pointname_to_sheetsid' = r.mapping
          /\ mapping_file' = r.file
    /\ store_log' = Some([op |-> "remove", point_name |-> point_name,
                          sheet_id |-> "", save |-> save,
                          before |-> pointname_to_sheetsid])
    /\ UNCHANGED observed
    /\ StoreFrame

\* get_sheet_id(point_name) by some handler
StoreGetSheetId(point_name) ==
    /\ observed' = Some([kind |-> "get_sheet_id",
                         entries |-> {pr \in pointname_to_sheetsid : pr[1] = point_name},
                         file |-> mapping_file])
    /\ UNCHANGED <<pointname_to_sheetsid, mapping_file, store_log>>
    /\ StoreFrame

\* get_all_mappings() by some handler
StoreGetAll ==
    /\ observed' = Some([kind |-> "get_all_mappings",
                         entries |-> pointname_to_sheetsid,
                         file |-> mapping_file])
    /\ UNCHANGED <<pointname_to_sheetsid, mapping_file, store_log>>
    /\ StoreFrame

\* the process is started again: SheetsMappingService.__init__ loads the file
StoreRestart ==
    /\ LET r == _load_data(mapping_file)
       IN /\ pointname_to_sheetsid' = r.data
          /\ mapping_file' = r.file
          /\ observed' = Some([kind |-> "load", entries |-> r.data, file |-> mapping_file])
    /\ store_log' = None
    /\ StoreFrame

InitStoreSpec ==
    /\ gemini_service = TRUE
    /\ perplexity_service = FALSE
    /\ pointname_to_sheetsid \in {{}, {<<"p1", "sheet1">>}}
    /\ InitConversation
    /\ InitExtra

NextStore ==
    \/ \E point_name \in PointNames : \E sheet_id \in SheetIds : \E save \in SaveOutcomes :
          StoreAdd(point_name, sheet_id, save)
    \/ \E point_name \in PointNames : \E save \in SaveOutcomes : StoreRemove(point_name, save)
    \/ \E point_name \in PointNames : StoreGetSheetId(point_name)
    \/ StoreGetAll
    \/ StoreRestart

SpecStore == InitStoreSpec /\ [][NextStore]_vars

\* the last call of the service changed the mapping in memory
Mutated ==
    /\ store_log # None
    /\ \/ store_log[1].op = "add"
       \/ get_sheet_id(store_log[1].before, store_log[1].point_name) # None

\* C28: after every completed add/update or removal the file holds exactly
\* the mapping that is in memory, also when the write to the file failed.
C28_FileEqualsMemory ==
    Mutated => mapping_file = [complete |-> TRUE, data |-> pointname_to_sheetsid]

\* C30: no reader of the mapping (get_sheet_id, get_all_mappings, a load of
\* the file) sees an entry that is not in the file or a file that is not
\* completely written, and an add/update keeps every other entry.
C30_AtomicMutations ==
    /\ observed # None =>
           /\ observed[1].file.complete
           /\ observed[1].entries \subseteq observed[1].file.data
    /\ (store_log # None /\ store_log[1].op = "add") =>
           pointname_to_sheetsid =
               DictSet(store_log[1].before, store_log[1].point_name, store_log[1].sheet_id)

(***************************************************************************)
(* The administrator's last step of &addpoint next to a user's submission  *)
(***************************************************************************)
\* SheetsMappingService() where an instance exists: that instance with the
\* data it holds; __init__ does not load the file again
Singleton(mapping, file) == [mapping |-> mapping, file |-> file]

\* a spreadsheet other than the tracked one: both worksheets, no rows
OtherSpreadsheet == [t \in Sheets |-> <<>>]

TrackedSheetId == "sheet1"

\* process_sheet_id: probe the spreadsheet, and when it is writable store
\* point_name -> sheet_id (point_name comes from the data of the
\* administrator's conversation)
ProcessSheetId(point_name, sheet_id, fault, save) ==
    /\ LET tracked == sheet_id = TrackedSheetId
           probe == check_sheet_write_permissions(
                        IF tracked THEN worksheets ELSE OtherSpreadsheet, fault)
           has_permissions == probe.returned /\ probe.exc = "none"
           service == Singleton(pointname_to_sheetsid, mapping_file)
           r == add_or_update_mapping(service.mapping, service.file,
                                      point_name, sheet_id, save)
       IN /\ worksheets' = IF tracked THEN probe.ws ELSE worksheets
          /\ sheet_call' = Some([op |-> "probe", sheet |-> SheetMATERIALS,
                                 fault |-> fault,
                                 before |-> IF tracked THEN worksheets ELSE OtherSpreadsheet,
                                 rows |-> <<>>,
                                 returned |-> IF has_permissions THEN Some("true") ELSE None,
                                 raised |-> probe.exc # "none" /\ ~ProbeCaught(probe.exc),
                                 writes |-> probe.writes])
          /\ IF has_permissions
             THEN /\ pointname_to_sheetsid' = r.mapping
                  /\ mapping_file' = r.file
                  /\ store_log' = Some([op |-> "add", point_name |-> point_name,
                                        sheet_id |-> sheet_id, save |-> save,
                                        before |-> pointname_to_sheetsid])
             ELSE UNCHANGED <<pointname_to_sheetsid, mapping_file, store_log>>
    /\ UNCHANGED observed
    /\ UNCHANGED <<gemini_service, perplexity_service, ppc, is_image,
                   selected_project, analysis, result, gemini_calls, sheets_calls,
                   remote_opens, local_files, persist_io, written_by>>
    /\ UNCHANGED <<enrichVars, sessionVars, otherVars, addPointVars, serviceVars, historyVars>>

FlowMessages == {"analyze", "project", "goods", "document"}

\* no project yet or one project; the spreadsheets have both worksheets
InitAdmin ==
    /\ gemini_service = TRUE
    /\ perplexity_service = FALSE
    /\ pointname_to_sheetsid \in {{}, {<<ProjectText, "sheet1">>}}
    /\ InitConversation
    /\ InitOther
    /\ worksheets = OtherSpreadsheet
    /\ sheet_call = None
    /\ InitStore
    /\ InitAddPoint
    /\ InitService
    /\ InitHistory

\* the administrator stores a mapping once; downloads, local files and
\* sends succeed
NextAdmin ==
    \/ /\ store_log = None
       /\ \E sheet_id \in SheetIds : \E fault \in {"none", "update1_error"} :
          \E save \in {"ok", "open_error"} :
             ProcessSheetId(ProjectText, sheet_id, fault, save)
    \/ \E m \in FlowMessages : Receive(m)
    \/ HandlerDownload("ok", FALSE, TRUE)
    \/ PipelineStart
    \/ \E a \in {None} \cup {Some(x) : x \in SheetAnalyses} : PipelineAnalyzed(a)
    \/ \E client_ok, remote_ok \in BOOLEAN :
          PipelinePersist(client_ok, remote_ok, TRUE, TRUE)
    \/ HandlerAfterPipeline
    \/ HandlerPresent(TRUE)

SpecAdmin == InitAdmin /\ [][NextAdmin]_vars

\* the administrator has stored a mapping (last mutation of the store)
AdminStored == store_log # None /\ store_log[1].op = "add"

\* C29: once the administrator's flow has stored point -> sheet id, without
\* a restart the next /analyze offers the projects (the point among them),
\* the point's name is accepted as a project, and the next pipeline run that
\* reaches the spreadsheet for that project goes to the stored sheet id.
C29_AddedMappingIsSeen ==
    [][AdminStored =>
          /\ Handled(NoState, "analyze") =>
                 /\ last_event'[1].reply = "choose_project"
                 /\ get_sheet_id(pointname_to_sheetsid, store_log[1].point_name)
                        = Some(store_log[1].sheet_id)
          /\ Handled("waiting_for_project_selection", "project") =>
                 fsm_data'.selected_project = Some(store_log[1].point_name)
          /\ (/\ ppc = "persist" /\ ppc' = "done"
              /\ selected_project = Some(store_log[1].point_name)
              /\ persist_io'[1].client_ok /\ persist_io'[1].remote_ok) =>
                 result'[1].google_sheet_url = Some(<<"url", store_log[1].sheet_id>>)]_vars

\* the first project was stored with a save that failed, and a pipeline run
\* wrote to the stored spreadsheet
C29_Witness ==
    /\ AdminStored
    /\ store_log[1].before = {}
    /\ store_log[1].sheet_id = "sheet2"
    /\ store_log[1].save = "open_error"
    /\ ppc = "done"
    /\ result # None
    /\ result[1].google_sheet_url = Some(<<"url", "sheet2">>)

(***************************************************************************)
(* The dispatcher with admin_addpoint_router (behind AdminFilter) before   *)
(* document_router; text messages of an administrator and of another user  *)
(***************************************************************************)
MaxUpdates == 5

\* settings.security.admin_user_ids
AdminUserIds == {"admin1"}

\* Settings.is_admin with an allow-list that holds everybody
is_admin_anybody(user_id) == TRUE

\* Settings.is_admin
is_admin(user_id) == user_id \in AdminUserIds

\* AdminFilter.__call__
AdminFilter(user_id) == is_admin(user_id)

AddPointMessages == {"addpoint", "admin_cancel", "change_point_name", "project",
                     "sheet1_text", "sheet1_padded", "sheet2_text", "analyze", "cancel"}

\* message.text
TextOf(m) ==
    CASE m = "addpoint" -> "&addpoint"
      [] m = "project" -> ProjectText
      [] m = "sheet1_text" -> "sheet1"
      [] m = "sheet1_padded" -> " sheet1 "
      [] m = "sheet2_text" -> "sheet2"
      [] m = "analyze" -> "/analyze"
      [] OTHER -> m

\* str.strip() on the message texts
StripText(t) == IF t = " sheet1 " THEN "sheet1" ELSE t

AddPointOrder == <<"cancel_handler", "cmd_add_point", "process_point_name",
                   "change_point_name_request", "process_sheet_id">>

\* the filters the handlers of admin_addpoint_router are registered with
AddPointFilter(h, st, m) ==
    CASE h = "cancel_handler" -> m = "admin_cancel"
      [] h = "cmd_add_point" -> m = "addpoint"
      [] h = "process_point_name" -> st = "waiting_for_point_name" /\ m # "admin_cancel"
      [] h = "change_point_name_request" ->
             m = "change_point_name" /\ st = "waiting_for_sheet_id"
      [] h = "process_sheet_id" -> st = "waiting_for_sheet_id"

\* the handler that gets the update: the first match of the admin router
\* when the router's filter passes, else the first match of document_router
Route(user_id, st, m) ==
    IF AdminFilter(user_id) /\ \E k \in 1..Len(AddPointOrder) : AddPointFilter(AddPointOrder[k], st, m)
    THEN AddPointOrder[CHOOSE k \in 1..Len(AddPointOrder) :
                          /\ AddPointFilter(AddPointOrder[k], st, m)
                          /\ \A j \in 1..(k - 1) : ~AddPointFilter(AddPointOrder[j], st, m)]
    ELSE Dispatch(st, m)

SendOutcomes == {"ok", "first_fails", "last_fails"}

\* process_sheet_id that stores the mapping whatever the probe said
process_sheet_id_unprobed(point, text, ws, mapping, file, sends, fault, save) ==
    LET sheet_id == StripText(text)
        r == add_or_update_mapping(mapping, file, point[1], sheet_id, save)
    IN IF sends = "first_fails" \/ point = None
       THEN [state |-> "waiting_for_sheet_id", point |-> point, ws |-> ws, mapping |-> mapping,
             file |-> file, probe |-> None, stored |-> FALSE]
       ELSE [state |-> NoState, point |-> None, ws |-> ws, mapping |-> r.mapping,
             file |-> r.file, probe |-> None, stored |-> TRUE]

\* process_sheet_id in waiting_for_sheet_id: the state and point_name after
\* it, the tracked spreadsheet, the mapping in memory and in the file, what
\* the probe returned (None: not run) and whether the mapping was stored
process_sheet_id(point, text, ws, mapping, file, sends, fault, save) ==
    LET sheet_id == StripText(text)
        exists == sheet_id \in SheetIds
        tracked == sheet_id = TrackedSheetId
        probe == check_sheet_write_permissions(
                     IF tracked THEN ws ELSE OtherSpreadsheet,
                     IF exists THEN fault ELSE "open_error")
        has_permissions == probe.returned /\ probe.exc = "none"
        ws1 == IF tracked THEN probe.ws ELSE ws
        r == add_or_update_mapping(mapping, file, point[1], sheet_id, save)
    IN IF sends = "first_fails"
       THEN [state |-> "waiting_for_sheet_id", point |-> point, ws |-> ws, mapping |-> mapping,
             file |-> file, probe |-> None, stored |-> FALSE]
       ELSE IF ~has_permissions
       THEN [state |-> "waiting_for_sheet_id", point |-> point, ws |-> ws1, mapping |-> mapping,
             file |-> file, probe |-> Some(FALSE), stored |-> FALSE]
       ELSE IF point = None
       THEN [state |-> NoState, point |-> None, ws |-> ws1, mapping |-> mapping,
             file |-> file, probe |-> Some(TRUE), stored |-> FALSE]
       ELSE IF sends = "last_fails"
       THEN [state |-> "waiting_for_sheet_id", point |-> point, ws |-> ws1,
             mapping |-> r.mapping, file |-> r.file, probe |-> Some(TRUE), stored |-> TRUE]
       ELSE [state |-> NoState, point |-> None, ws |-> ws1,
             mapping |-> r.mapping, file |-> r.file, probe |-> Some(TRUE), stored |-> TRUE]

\* an update of user user_id arrives: the routers are tried in the order
\* they were included and the first matching handler runs to its end
Update(user_id, m, sends, fault, save) ==
    /\ adm_count < MaxUpdates
    /\ LET st == adm_state[user_id]
           point == adm_point[user_id]
           doc == adm_doc[user_id]
           h == Route(user_id, st, m)
           s == process_sheet_id(point, TextOf(m), worksheets, pointname_to_sheetsid,
                                 mapping_file, sends, fault, save)
           d == Handle(h, st, doc, m, pointname_to_sheetsid)
           cleared == [state |-> NoState, point |-> None, doc |-> NoData]
           kept == [state |-> st, point |-> point, doc |-> doc]
           ctx == CASE h = "cancel_handler" -> IF st = NoState THEN kept ELSE cleared
                    [] h = "cmd_add_point" ->
                           [kept EXCEPT !.state = "waiting_for_point_name"]
                    [] h = "process_point_name" ->
                           [kept EXCEPT !.state = "waiting_for_sheet_id",
                                        !.point = Some(StripText(TextOf(m)))]
                    [] h = "change_point_name_request" ->
                           [kept EXCEPT !.state = "waiting_for_point_name"]
                    [] h = "process_sheet_id" ->
                           IF s.state = NoState THEN cleared
                           ELSE [kept EXCEPT !.state = s.state, !.point = s.point]
                    [] OTHER -> [state |-> d.state,
                                 point |-> IF d.state = NoState THEN None ELSE point,
                                 doc |-> d.data]
       IN /\ adm_state' = [adm_state EXCEPT ![user_id] = ctx.state]
          /\ adm_point' = [adm_point EXCEPT ![user_id] = ctx.point]
          /\ adm_doc' = [adm_doc EXCEPT ![user_id] = ctx.doc]
          /\ adm_event' = Some([user |-> user_id, msg |-> m, handler |-> h,
                                state |-> st, point |-> point,
                                probe |-> IF h = "process_sheet_id" THEN s.probe ELSE None,
                                stored |-> h = "process_sheet_id" /\ s.stored,
                                mapping |-> pointname_to_sheetsid])
          /\ IF h = "process_sheet_id"
             THEN /\ worksheets' = s.ws
                  /\ pointname_to_sheetsid' = s.mapping
                  /\ mapping_file' = s.file
                  /\ store_log' = IF s.stored
                                  THEN Some([op |-> "add", point_name |-> point[1],
                                             sheet_id |-> StripText(TextOf(m)), save |-> save,
                                             before |-> pointname_to_sheetsid])
                                  ELSE store_log
             ELSE UNCHANGED <<worksheets, pointname_to_sheetsid, mapping_file, store_log>>
    /\ adm_count' = adm_count + 1
    /\ UNCHANGED <<sheet_call, observed, serviceVars, historyVars>>
    /\ UNCHANGED <<gemini_service, perplexity_service, ppc, is_image,
                   selected_project, analysis, result, gemini_calls, sheets_calls,
                   remote_opens, local_files, persist_io, written_by>>
    /\ UNCHANGED <<enrichVars, sessionVars, otherVars>>

InitAddPointSpec ==
    /\ gemini_service = TRUE
    /\ perplexity_service = FALSE
    /\ pointname_to_sheetsid \in {{}, {<<ProjectText, "sheet2">>}}
    /\ InitConversation
    /\ InitOther
    /\ worksheets = OtherSpreadsheet
    /\ sheet_call = None
    /\ InitStore
    /\ InitAddPoint
    /\ InitService
    /\ InitHistory

\* the sends, the probe and the save can fail where process_sheet_id runs
NextAddPoint ==
    \/ \E user_id \in Users : \E m \in AddPointMessages :
          /\ Route(user_id, adm_state[user_id], m) # "process_sheet_id"
          /\ Update(user_id, m, "ok", "none", "ok")
    \/ \E user_id \in Users : \E m \in AddPointMessages : \E sends \in SendOutcomes :
       \E fault \in {"none", "update1_error"} : \E save \in {"ok", "open_error"} :
          /\ Route(user_id, adm_state[user_id], m) = "process_sheet_id"
          /\ Update(user_id, m, sends, fault, save)

SpecAddPoint == InitAddPointSpec /\ [][NextAddPoint]_vars

\* C31: the project mapping changes only in a step that handles a message
\* of an allow-listed administrator, and then by one add/update.
C31_OnlyAdminsChangeMapping ==
    [][pointname_to_sheetsid' # pointname_to_sheetsid =>
          /\ adm_event'[1].user \in AdminUserIds
          /\ \E point_name \in {StripText(TextOf(m)) : m \in AddPointMessages} :
             \E sheet_id \in SheetIds :
                 pointname_to_sheetsid' = DictSet(pointname_to_sheetsid, point_name, sheet_id)]_vars

\* after the administrator stored a mapping the other user sent the
\* command of the flow, which no handler took
C31_Witness ==
    /\ adm_event # None
    /\ adm_event[1].user = "guest"
    /\ adm_event[1].msg = "addpoint"
    /\ adm_event[1].handler = "unhandled"
    /\ store_log # None
    /\ adm_state["guest"] = NoState

\* this step is process_sheet_id handling an update
SheetIdStep ==
    /\ adm_count' = adm_count + 1
    /\ adm_event'[1].handler = "process_sheet_id"

\* C36: process_sheet_id stores a mapping only when the permission probe
\* for the entered sheet id returned true; when the probe returned false
\* the mapping (memory and file) is unchanged, the state stays
\* waiting_for_sheet_id and the entered point name is kept.
C36_StoredOnlyAfterProbe ==
    [][SheetIdStep =>
          LET e == adm_event'[1]
          IN /\ (e.stored \/ pointname_to_sheetsid' # pointname_to_sheetsid
                     \/ mapping_file' # mapping_file) => e.probe = Some(TRUE)
             /\ e.probe = Some(FALSE) =>
                    /\ pointname_to_sheetsid' = pointname_to_sheetsid
                    /\ mapping_file' = mapping_file
                    /\ adm_state'[e.user] = "waiting_for_sheet_id"
                    /\ adm_point'[e.user] = adm_point[e.user]
                    /\ adm_point[e.user] # None]_vars

\* the probe of the entered sheet id failed; the administrator is still
\* asked for a sheet id and the mapping is the one of the start
C36_Witness ==
    /\ adm_event # None
    /\ adm_event[1].handler = "process_sheet_id"
    /\ adm_event[1].msg = "sheet1_text"
    /\ adm_event[1].probe = Some(FALSE)
    /\ adm_state["admin1"] = "waiting_for_sheet_id"
    /\ adm_point["admin1"] = Some(ProjectText)
    /\ store_log = None


\* ---------------------------------------------------------------------------
\* GeminiService: analyze_invoice_image and analyze_document
\* ---------------------------------------------------------------------------

\* The text of a model response is a sequence of tokens: the opening markdown
\* fence (three backquotes and "json"), the closing fence (three backquotes), a
\* blank " " and JSON documents.
FenceOpen == "fence_json"

FenceClose == "fence"

\* what json.loads makes of a token: a dict with its items (each item the set of
\* keys it carries), a list, or no JSON at all
JsonDocs == [doc_ok |-> [kind |-> "dict", items |-> <<{"name", "quantity", "unit", "price", "total"}>>], doc_empty |-> [kind |-> "dict", items |-> <<>>], doc_item_no_price |-> [kind |-> "dict", items |-> <<{"name", "quantity", "total"}>>], doc_list |-> [kind |-> "list", items |-> <<>>]]

\* the responses the service may receive, each with what it is: empty, not JSON
\* once the fences are stripped, JSON of the wrong shape, or a valid document
GeminiResponses == {[text |-> <<>>, class |-> "empty"], [text |-> <<" ">>, class |-> "not_json"], [text |-> <<"not_json">>, class |-> "not_json"], [text |-> <<FenceOpen, " ", "not_json", " ", FenceClose>>, class |-> "not_json"], [text |-> <<FenceOpen>>, class |-> "not_json"], [text |-> <<"doc_list">>, class |-> "schema_invalid"], [text |-> <<FenceOpen, " ", "doc_item_no_price", " ", FenceClose>>, class |-> "schema_invalid"], [text |-> <<"doc_ok">>, class |-> "valid"], [text |-> <<" ", "doc_ok", " ">>, class |-> "valid"], [text |-> <<" ", FenceOpen, " ", "doc_ok", " ", FenceClose, " ">>, class |-> "valid"], [text |-> <<FenceOpen, "doc_empty", FenceClose>>, class |-> "valid"]}

\* what can go wrong on the way: opening the image, converting it to RGB,
\* saving the copy, the upload and the generation request
GeminiFaults == {"none", "open_error", "convert_error", "save_error", "upload_error", "generate_error"}

\* the response text with the markdown fences removed
strip_fences(text) ==
    LET t1 == Strip(text)
        t2 == IF t1 # <<>> /\ Head(t1) = FenceOpen THEN Tail(t1) ELSE t1
        t3 == IF t2 # <<>> /\ t2[Len(t2)] = FenceClose THEN SubSeq(t2, 1, Len(t2) - 1) ELSE t2
    IN  Strip(t3)

\* json.loads: the value, or JSONDecodeError
json_loads(text) ==
    IF Len(text) = 1 /\ text[1] \in DOMAIN JsonDocs
    THEN [value |-> Some(JsonDocs[text[1]]), exc |-> "none"]
    ELSE [value |-> None, exc |-> "JSONDecodeError"]

\* GoodsDocumentAnalysis.model_validate: a dict whose items all carry quantity,
\* price and total; everything else has a default
GoodsDocumentAnalysis_model_validate(data) ==
    IF data.kind = "dict" /\ \A i \in DOMAIN data.items : {"quantity", "price", "total"} \subseteq data.items[i]
    THEN [value |-> Some([category |-> SheetMATERIALS, items |-> Len(data.items)]), exc |-> "none"]
    ELSE [value |-> None, exc |-> "ValidationError"]

\* JobsDocumentAnalysis.model_validate: the same shape with other defaults
JobsDocumentAnalysis_model_validate(data) ==
    IF data.kind = "dict" /\ \A i \in DOMAIN data.items : {"quantity", "price", "total"} \subseteq data.items[i]
    THEN [value |-> Some([category |-> SheetJOBS, items |-> Len(data.items)]), exc |-> "none"]
    ELSE [value |-> None, exc |-> "ValidationError"]

\* "except json.JSONDecodeError" and "except Exception" around the parsing
parse_caught(exc) == exc # "none"

\* from "if not response.text" to the end of the inner try: what is returned
\* and the exception that leaves the block
parse_response(doc_type, text) ==
    IF text = <<>> THEN [returned |-> None, exc |-> "none"]
    ELSE LET loaded == json_loads(strip_fences(text))
             validated == IF loaded.exc # "none" THEN loaded
                          ELSE IF doc_type = SheetMATERIALS THEN GoodsDocumentAnalysis_model_validate(loaded.value[1])
                          ELSE IF doc_type = SheetJOBS THEN JobsDocumentAnalysis_model_validate(loaded.value[1])
                          ELSE [value |-> None, exc |-> "none"]
         IN  IF validated.exc = "none" THEN [returned |-> validated.value, exc |-> "none"]
             ELSE IF parse_caught(validated.exc) THEN [returned |-> None, exc |-> "none"]
             ELSE [returned |-> None, exc |-> validated.exc]

\* client.files.upload, client.models.generate_content and the parsing: each
\* request is made once
upload_and_generate(doc_type, fault, text) ==
    IF fault = "upload_error" THEN [returned |-> None, exc |-> "APIError", uploads |-> 1, generations |-> 0]
    ELSE IF fault = "generate_error" THEN [returned |-> None, exc |-> "APIError", uploads |-> 1, generations |-> 1]
    ELSE LET r == parse_response(doc_type, text)
         IN  [returned |-> r.returned, exc |-> r.exc, uploads |-> 1, generations |-> 1]

\* the outer handler misses the errors of the transport
analyze_caught_local_only(exc) == exc \in {"OSError", "JSONDecodeError", "ValidationError"}

\* the outer "except Exception"
analyze_caught(exc) == exc # "none"

\* Image.open, image.convert and image.save: does temp_<name> exist afterwards
\* and which exception was raised; a save that fails removes the file it created
prepare_image(fault) ==
    IF fault \in {"open_error", "convert_error", "save_error"}
    THEN [exists |-> FALSE, exc |-> "OSError"]
    ELSE [exists |-> TRUE, exc |-> "none"]

\* the copy outlives a failed request
finally_unlink_skipped(exists) == exists

\* "finally: temp_image_path.unlink(missing_ok=True)"
finally_unlink(exists) == FALSE

\* the call up to the inner try: the image is opened, converted and saved
GeminiBegin(kind, doc_type, fault, response) ==
    /\ gem_pc \in {"idle", "returned"}
    /\ kind = "document" => fault \in {"none", "upload_error", "generate_error"}
    /\ LET prep == IF kind = "image" THEN prepare_image(fault) ELSE [exists |-> temp_copy, exc |-> "none"]
           call == [kind |-> kind, document_type |-> doc_type, fault |-> fault, response |-> response, copy_created |-> kind = "image" /\ prep.exists, uploads |-> 0, generations |-> 0, returned |-> None, raised |-> FALSE]
       IN  /\ temp_copy' = prep.exists
           /\ IF prep.exc = "none"
              THEN /\ gem_pc' = "requesting"
                   /\ gem_call' = Some(call)
              ELSE /\ gem_pc' = "returned"
                   /\ gem_call' = Some([call EXCEPT !.raised = ~analyze_caught(prep.exc)])
    /\ UNCHANGED <<enrichVars, pipelineVars, sessionVars, otherVars, sheetVars, storeVars, addPointVars, parseVars, userVars, historyVars>>

\* the inner try with its finally, and the outer handler
GeminiFinish ==
    /\ gem_pc = "requesting"
    /\ LET call == gem_call[1]
           r == upload_and_generate(call.document_type, call.fault, call.response.text)
       IN  /\ gem_call' = Some([call EXCEPT !.uploads = r.uploads, !.generations = r.generations, !.returned = IF r.exc = "none" THEN r.returned ELSE None, !.raised = r.exc # "none" /\ ~analyze_caught(r.exc)])
           /\ temp_copy' = IF call.kind = "image" THEN (IF r.exc = "none" THEN FALSE ELSE finally_unlink(temp_copy)) ELSE temp_copy
    /\ gem_pc' = "returned"
    /\ UNCHANGED <<enrichVars, pipelineVars, sessionVars, otherVars, sheetVars, storeVars, addPointVars, parseVars, userVars, historyVars>>

InitGemini ==
    /\ gemini_service = TRUE
    /\ perplexity_service = FALSE
    /\ pointname_to_sheetsid = {<<"p1", "sheet1">>}
    /\ InitConversation
    /\ InitExtra

NextGemini ==
    \/ \E doc_type \in Sheets \cup {NoSheet}, fault \in GeminiFaults, response \in GeminiResponses : GeminiBegin("image", doc_type, fault, response)
    \/ \E doc_type \in Sheets \cup {NoSheet}, fault \in GeminiFaults, response \in GeminiResponses : GeminiBegin("document", doc_type, fault, response)
    \/ GeminiFinish

SpecGemini == InitGemini /\ [][NextGemini]_vars

\* the call has returned to its caller
GeminiReturned == gem_pc = "returned" /\ gem_call # None

\* the request failed, or the response is empty, not JSON or of the wrong shape
GeminiFailed(call) ==
    \/ call.fault # "none"
    \/ call.response.class \in {"empty", "not_json", "schema_invalid"}

\* C32: analyze_invoice_image and analyze_document never raise; an empty
\* response, a response that is not JSON once the fences are stripped, a document
\* of the wrong shape and an upload or transport error all give None, and the
\* upload and the generation request are made at most once
C32_AnalysisNeverRaises ==
    GeminiReturned =>
        /\ ~gem_call[1].raised
        /\ GeminiFailed(gem_call[1]) => gem_call[1].returned = None
        /\ gem_call[1].uploads <= 1
        /\ gem_call[1].generations <= 1

\* a returned call whose validation failed after both requests were made
C32_Witness ==
    /\ GeminiReturned
    /\ gem_call[1].fault = "none"
    /\ gem_call[1].response.class = "schema_invalid"
    /\ gem_call[1].document_type = SheetMATERIALS
    /\ gem_call[1].generations = 1
    /\ gem_call[1].returned = None

Digits == {"0", "2", "4", "5", "8"}

LineBreak == "\n"

AverageLabels == {"SREDNYAYA TSENA", "AVERAGE PRICE"}

MinLabels == {"MINIMALNAYA TSENA", "MIN PRICE"}

AnalysisLabels == {"ANALIZ", "ANALYSIS"}

\* str.upper on a token
Upper(c) ==
    CASE c = "srednyaya tsena" -> "SREDNYAYA TSENA"
      [] c = "average price" -> "AVERAGE PRICE"
      [] c = "minimalnaya tsena" -> "MINIMALNAYA TSENA"
      [] c = "min price" -> "MIN PRICE"
      [] c = "analiz" -> "ANALIZ"
      [] c = "analysis" -> "ANALYSIS"
      [] c = "uah" -> "UAH"
      [] c = "source" -> "SOURCE"
      [] OTHER -> c

\* str.isspace
IsWhite(c) == c \in {" ", LineBreak}

RECURSIVE LStripW(_)
LStripW(s) == IF s # <<>> /\ IsWhite(Head(s)) THEN LStripW(Tail(s)) ELSE s

RECURSIVE RStripW(_)
RStripW(s) == IF s # <<>> /\ IsWhite(s[Len(s)]) THEN RStripW(SubSeq(s, 1, Len(s) - 1)) ELSE s

\* the text kept as it came
StripW_not(s) == s

\* str.strip()
StripW(s) == RStripW(LStripW(s))

\* the position of the first sep in s, 0 if there is none
RECURSIVE FindFirst(_, _, _)
FindFirst(s, sep, k) ==
    IF k > Len(s) THEN 0
    ELSE IF s[k] = sep THEN k
    ELSE FindFirst(s, sep, k + 1)

\* the position of the last sep in s, 0 if there is none
RECURSIVE FindLast(_, _)
FindLast(s, sep) ==
    IF s = <<>> THEN 0
    ELSE IF s[Len(s)] = sep THEN Len(s)
    ELSE FindLast(SubSeq(s, 1, Len(s) - 1), sep)

\* str.split("\n")
RECURSIVE SplitLines(_)
SplitLines(s) ==
    LET k == FindFirst(s, LineBreak, 1)
    IN  IF k = 0 THEN <<s>>
        ELSE <<SubSeq(s, 1, k - 1)>> \o SplitLines(SubSeq(s, k + 1, Len(s)))

\* '"LABEL:" in line.upper()' for one of the labels
HasLabel(line, labels) ==
    \E k \in 1..(Len(line) - 1) : Upper(line[k]) \in labels /\ line[k + 1] = ":"

\* line.split(":")[-1]: what follows the last colon
AfterLastColon(line) == SubSeq(line, FindLast(line, ":") + 1, Len(line))

\* the part of the line from the label's colon on
AfterFirstColon(line) == SubSeq(line, FindFirst(line, ":", 1) + 1, Len(line))

\* '"".join(c for c in price_str if c.isdigit() or c in ".,")'
RECURSIVE KeepNumeric(_)
KeepNumeric(s) ==
    IF s = <<>> THEN <<>>
    ELSE IF Head(s) \in Digits \cup {".", ","} THEN <<Head(s)>> \o KeepNumeric(Tail(s))
    ELSE KeepNumeric(Tail(s))

\* str.replace(",", ".")
RECURSIVE ReplaceComma(_)
ReplaceComma(s) ==
    IF s = <<>> THEN <<>>
    ELSE <<IF Head(s) = "," THEN "." ELSE Head(s)>> \o ReplaceComma(Tail(s))

RECURSIVE DropLeadingZeros(_)
DropLeadingZeros(s) == IF s # <<>> /\ Head(s) = "0" THEN DropLeadingZeros(Tail(s)) ELSE s

RECURSIVE DropTrailingZeros(_)
DropTrailingZeros(s) == IF s # <<>> /\ s[Len(s)] = "0" THEN DropTrailingZeros(SubSeq(s, 1, Len(s) - 1)) ELSE s

\* the number written as whole.frac: its digits before and after the point,
\* without leading and trailing zeros
Number(whole, frac) == [whole |-> DropLeadingZeros(whole), frac |-> DropTrailingZeros(frac)]

\* float(): the number, or ValueError for a text that is no decimal literal
float(s) ==
    LET k == FindFirst(s, ".", 1)
        whole == IF k = 0 THEN s ELSE SubSeq(s, 1, k - 1)
        frac == IF k = 0 THEN <<>> ELSE SubSeq(s, k + 1, Len(s))
    IN  IF /\ \A j \in DOMAIN whole : whole[j] \in Digits
           /\ \A j \in DOMAIN frac : frac[j] \in Digits
           /\ Len(whole) + Len(frac) > 0
        THEN [value |-> Some(Number(whole, frac)), exc |-> "none"]
        ELSE [value |-> None, exc |-> "ValueError"]

\* the body of a price branch: the new value of the price, old where nothing is
\* assigned (an empty price_str, or a ValueError that the branch catches)
extract_price(line, old) ==
    LET price_str == ReplaceComma(KeepNumeric(StripW(AfterLastColon(line))))
        parsed == float(price_str)
    IN  IF price_str = <<>> THEN old
        ELSE IF parsed.exc = "none" THEN parsed.value
        ELSE old

\* list.index: the first position of line in lines, 0 (ValueError) if absent
Index(lines, line) ==
    IF \E k \in DOMAIN lines : lines[k] = line
    THEN CHOOSE k \in DOMAIN lines : lines[k] = line /\ \A j \in 1..(k - 1) : lines[j] # line
    ELSE 0

\* '" ".join(l.strip() for l in remaining_lines if l.strip())'
RECURSIVE JoinStripped(_)
JoinStripped(lines) ==
    IF lines = <<>> THEN <<>>
    ELSE LET l == StripW(Head(lines))
             rest == JoinStripped(Tail(lines))
         IN  IF l = <<>> THEN rest
             ELSE IF rest = <<>> THEN l
             ELSE l \o <<" ">> \o rest

\* "if remaining_lines": a non-empty list, also one of blank lines only
analysis_of(lines, line, idx) ==
    LET analysis_text == StripW(AfterFirstColon(line))
        remaining_lines == SubSeq(lines, idx + 1, Len(lines))
    IN  IF remaining_lines # <<>> THEN analysis_text \o <<" ">> \o JoinStripped(remaining_lines)
        ELSE analysis_text

\* the loop over the lines from line k on; exc is the exception that leaves it
RECURSIVE parse_lines(_, _, _)
parse_lines(lines, k, res) ==
    IF k > Len(lines) THEN res
    ELSE LET line == StripW(lines[k])
         IN  IF HasLabel(line, AverageLabels)
             THEN parse_lines(lines, k + 1, [res EXCEPT !.average_price = extract_price(line, res.average_price)])
             ELSE IF HasLabel(line, MinLabels)
             THEN parse_lines(lines, k + 1, [res EXCEPT !.min_price = extract_price(line, res.min_price)])
             ELSE IF HasLabel(line, AnalysisLabels)
             THEN IF Index(lines, line) = 0
                  THEN [res EXCEPT !.exc = "ValueError"]
                  ELSE parse_lines(lines, k + 1, [res EXCEPT !.analysis = Some(analysis_of(lines, line, Index(lines, line)))])
             ELSE parse_lines(lines, k + 1, res)

\* _parse_response: the result dictionary
_parse_response(response_text) ==
    LET start == [average_price |-> None, min_price |-> None, analysis |-> Some(<<>>), exc |-> "none"]
        res == parse_lines(SplitLines(StripW(response_text)), 1, start)
        text == IF res.exc # "none" THEN Some(StripW(response_text))
                ELSE IF res.analysis = Some(<<>>) THEN Some(StripW(response_text))
                ELSE res.analysis
    IN  [average_price |-> res.average_price, min_price |-> res.min_price, analysis |-> text]

\* the two spellings of a label the responses use
AverageWords == AverageLabels \cup {"srednyaya tsena", "average price"}

MinWords == MinLabels \cup {"minimalnaya tsena", "min price"}

\* the numbers the responses quote
QuotedNumbers == {<<"2", "8", "0">>, <<"2", "8", "0", ",", "5">>, <<"2", "4", "0", ".", "0">>}

\* what follows the number on its line
LineTails == {<<>>, <<" ", "uah">>, <<" ", "uah", ".">>, <<" ", "uah", " ", "(", "2", "0", "2", "5", ")">>, <<" ", "uah", ",", " ", "source", ":", " ", "x">>, <<",", " ", "source">>}

PriceLines(words) == {<<w, ":", " ">> \o n \o t : w \in words, n \in QuotedNumbers, t \in LineTails}

\* the analysis lines, the last with a continuation line
AnalysisTexts == {<<"ANALIZ", ":", " ", "test", " ", "source", " ", "x">>, <<"analysis", ":", " ", "source", LineBreak, " ", "more", " ">>, <<" ", "ANALYSIS", ":", "source", " ", LineBreak, "more">>}

\* texts without any label followed by a colon
PlainTexts == {<<>>, <<" ">>, <<"source">>, <<" ", "source", LineBreak, "2", "8", "0", " ", "uah", " ", LineBreak>>, <<"AVERAGE PRICE", " ", "2", "8", "0">>, <<LineBreak, "analysis", " ", "source", ":", "x">>}

\* the responses parsed: one labelled line alone or indented, the three labelled
\* lines of the prompt's format, an analysis alone, and texts without labels
ParseTexts ==
    PriceLines(AverageWords) \cup PriceLines(MinWords)
    \cup {<<" ">> \o l \o <<LineBreak>> : l \in PriceLines({"AVERAGE PRICE", "min price"})}
    \cup {a \o <<LineBreak>> \o m \o <<LineBreak>> \o t : a \in PriceLines({"SREDNYAYA TSENA"}), m \in {<<"MINIMALNAYA TSENA", ":", " ", "2", "4", "0", ".", "0", " ", "uah">>}, t \in AnalysisTexts}
    \cup {<<"source", LineBreak>> \o t : t \in AnalysisTexts}
    \cup AnalysisTexts
    \cup PlainTexts

\* one response is parsed
ParseResponse ==
    /\ parse_result = None
    /\ parse_result' = Some(_parse_response(parse_text))
    /\ UNCHANGED parse_text
    /\ UNCHANGED <<enrichVars, pipelineVars, sessionVars, otherVars, sheetVars, storeVars, addPointVars, gemVars, userVars, historyVars>>

InitParseSpec ==
    /\ gemini_service = TRUE
    /\ perplexity_service = TRUE
    /\ pointname_to_sheetsid = {<<"p1", "sheet1">>}
    /\ InitConversation
    /\ InitOther
    /\ InitSheet
    /\ InitStore
    /\ InitAddPoint
    /\ InitGem
    /\ InitUsers
    /\ InitHistory
    /\ parse_text \in ParseTexts
    /\ parse_result = None

NextParse == ParseResponse

SpecParse == InitParseSpec /\ [][NextParse]_vars

\* the text is one line with one price label
OnePriceLine(text, words) ==
    /\ FindFirst(StripW(text), LineBreak, 1) = 0
    /\ \E k \in 1..(Len(text) - 1) : text[k] \in words /\ text[k + 1] = ":"

\* the first numeric token of a line: the first run of digits, with the digits
\* that follow one comma or point
FirstNumericToken(line) ==
    LET a == CHOOSE k \in 1..(Len(line) + 1) : (k = Len(line) + 1 \/ line[k] \in Digits) /\ \A j \in 1..(k - 1) : line[j] \notin Digits
        IsRun(n) == \A j \in a..n : line[j] \in Digits
        b == CHOOSE n \in (a - 1)..Len(line) : IsRun(n) /\ (n = Len(line) \/ line[n + 1] \notin Digits)
        hasFrac == b + 2 <= Len(line) /\ line[b + 1] \in {".", ","} /\ line[b + 2] \in Digits
        c == IF hasFrac THEN CHOOSE n \in (b + 2)..Len(line) : (\A j \in (b + 2)..n : line[j] \in Digits) /\ (n = Len(line) \/ line[n + 1] \notin Digits) ELSE b
    IN  IF a > Len(line) THEN None
        ELSE Some(Number(SubSeq(line, a, b), IF hasFrac THEN SubSeq(line, b + 2, c) ELSE <<>>))

\* C34: the price parsed from a line with an average-price or minimum-price
\* label is the value of the first numeric token of that line, also when
\* digits, punctuation or a second colon follow the token
C34_PriceIsFirstNumericToken ==
    parse_result # None =>
        /\ OnePriceLine(parse_text, AverageWords) => parse_result[1].average_price = FirstNumericToken(parse_text)
        /\ OnePriceLine(parse_text, MinWords) => parse_result[1].min_price = FirstNumericToken(parse_text)

\* no label followed by a colon anywhere in the text, in any letter case
NoLabels(text) ==
    ~\E k \in 1..(Len(text) - 1) : Upper(text[k]) \in AverageLabels \cup MinLabels \cup AnalysisLabels /\ text[k + 1] = ":"

\* C35: a text without price labels and without an analysis label gives no
\* prices and the whole trimmed text as the analysis; the analysis of every
\* text is a string, never absent
C35_UnlabelledTextIsTheAnalysis ==
    parse_result # None =>
        /\ parse_result[1].analysis # None
        /\ NoLabels(parse_text) =>
              /\ parse_result[1].average_price = None
              /\ parse_result[1].min_price = None
              /\ parse_result[1].analysis = Some(RStripW(LStripW(parse_text)))

\* an unlabelled text of several lines with blanks around it has been parsed
C35_Witness ==
    /\ parse_result # None
    /\ NoLabels(parse_text)
    /\ Len(parse_text) > 3
    /\ parse_text[1] = " "
    /\ parse_result[1].analysis # Some(parse_text)



\* ---------------------------------------------------------------------------
\* The conversation while a file is downloaded and after a cancel
\* ---------------------------------------------------------------------------

\* C37: whenever the pipeline is invoked for an uploaded file, its project and
\* category are both set and are the ones selected in the session in which the
\* file was sent in, also when a cancel (and a new start) is handled during the
\* download
C37_PipelineGetsTheUploadSelection ==
    hpc = "pipeline" =>
        /\ selected_project # None
        /\ document_type \in Sheets
        /\ upload_data # None
        /\ selected_project = upload_data[1].selected_project
        /\ Some(document_type) = upload_data[1].document_type

\* the user has begun a new session after cancelling the request in flight
NewSessionAfterCancel ==
    /\ cancelled
    /\ fsm_state \in {"waiting_for_project_selection", "waiting_for_document_type_selection", "waiting_for_document"}

\* C38: the completion of a pipeline whose request the user cancelled leaves
\* the stage, the project and the category of a session the user started after
\* the cancel as they are
C38_CompletionKeepsNewSession ==
    [][(hpc = "present" /\ hpc' = "done" /\ NewSessionAfterCancel) => (fsm_state' = fsm_state /\ fsm_data' = fsm_data)]_vars


\* C39: when add_data_to_spreadsheet returns no URL the remote spreadsheet is
\* as it was before the call: no section created, no header row and no item
\* row written
C39_FailedAppendWritesNothing ==
    (sheet_call # None /\ sheet_call[1].op = "add_data" /\ sheet_call[1].returned = None) =>
        worksheets = sheet_call[1].before


\* ---------------------------------------------------------------------------
\* UserService: the two dictionaries of UserMapping and user_map.json
\* ---------------------------------------------------------------------------

UserIds == {"1", "2"}

Usernames == {"alice", "bob", "carol"}

\* dict.get
DictGet(d, k) ==
    IF \E pr \in d : pr[1] = k THEN Some((CHOOSE pr \in d : pr[1] = k)[2]) ELSE None

\* UserService._save_data: the file after it; every error is logged and swallowed
user_save_data(file, data, save) ==
    IF save = "ok" THEN [complete |-> TRUE, data |-> data]
    ELSE IF save = "open_error" THEN file
    ELSE [complete |-> FALSE, data |-> [id_to_username |-> {}, username_to_id |-> {}]]

\* remove_user: both entries of the id are popped, then the file is written if
\* there was a username
remove_user(data, file, user_id, save) ==
    LET old_username == DictGet(data.id_to_username, user_id)
        popped == [data EXCEPT !.id_to_username = DictDel(@, user_id)]
    IN  IF old_username # None
        THEN LET both == [popped EXCEPT !.username_to_id = DictDel(@, old_username[1])]
             IN  [data |-> both, file |-> user_save_data(file, both, save)]
        ELSE [data |-> popped, file |-> file]

\* update_user: remove_user, the two new entries for a username, the file
update_user(data, file, user_id, username, save) ==
    LET removed == remove_user(data, file, user_id, save)
        added == IF username # None
                 THEN [id_to_username |-> DictSet(removed.data.id_to_username, user_id, username[1]), username_to_id |-> DictSet(removed.data.username_to_id, username[1], user_id)]
                 ELSE removed.data
    IN  [data |-> added, file |-> user_save_data(removed.file, added, save)]

UserData == [id_to_username |-> id_to_username, username_to_id |-> username_to_id]

UserFrame == UNCHANGED <<enrichVars, pipelineVars, sessionVars, otherVars, sheetVars, storeVars, addPointVars, gemVars, parseVars, historyVars>>

\* update_user(user_id, username); username None removes the user
UserUpdate(user_id, username, save) ==
    /\ LET r == update_user(UserData, user_file, user_id, username, save)
       IN  /\ id_to_username' = r.data.id_to_username
           /\ username_to_id' = r.data.username_to_id
           /\ user_file' = r.file
    /\ user_log' = Some([op |-> "update_user", user_id |-> user_id, username |-> username, previous |-> DictGet(id_to_username, user_id)])
    /\ UserFrame

\* remove_user(user_id)
UserRemove(user_id, save) ==
    /\ LET r == remove_user(UserData, user_file, user_id, save)
       IN  /\ id_to_username' = r.data.id_to_username
           /\ username_to_id' = r.data.username_to_id
           /\ user_file' = r.file
    /\ user_log' = Some([op |-> "remove_user", user_id |-> user_id, username |-> None, previous |-> DictGet(id_to_username, user_id)])
    /\ UserFrame

InitUsersSpec ==
    /\ gemini_service = TRUE
    /\ perplexity_service = FALSE
    /\ pointname_to_sheetsid = {<<"p1", "sheet1">>}
    /\ InitConversation
    /\ InitExtra

NextUsers ==
    \/ \E user_id \in UserIds, username \in {Some(n) : n \in Usernames} \cup {None}, save \in SaveOutcomes : UserUpdate(user_id, username, save)
    \/ \E user_id \in UserIds, save \in SaveOutcomes : UserRemove(user_id, save)

SpecUsers == InitUsersSpec /\ [][NextUsers]_vars

\* every id's username leads back to the id and every username's id back to
\* the username
MutuallyInverse ==
    /\ \A pr \in id_to_username : <<pr[2], pr[1]>> \in username_to_id
    /\ \A pr \in username_to_id : <<pr[2], pr[1]>> \in id_to_username

\* C40: after any sequence of update_user and remove_user the two dictionaries
\* are mutually inverse, and after update_user(id, new_name) the previous
\* username of id resolves to no id
C40_MappingsAreInverse ==
    /\ MutuallyInverse
    /\ (user_log # None /\ user_log[1].op = "update_user" /\ user_log[1].previous # None /\ user_log[1].previous # user_log[1].username) =>
          DictGet(username_to_id, user_log[1].previous[1]) = None

====
